---------------------------- MODULE Spec2Model ----------------------------
(***************************************************************************)
(* A model of terraform-provider-graphql: the request executor with its    *)
(* retry loop (graphql/query_executor.go), the process-wide rate limiters  *)
(* (same file), and the CRUD reconciliation engine                         *)
(* (graphql/resource_graphql_mutation.go).                                 *)
(*                                                                         *)
(* Strings the code searches with strings.Contains are sequences of        *)
(* tokens (words and punctuation marks); Contains is the search for a      *)
(* contiguous sub-sequence and ToLower maps each token.  Durations are     *)
(* counted in ticks of 100ms.                                              *)
(***************************************************************************)
EXTENDS Integers, Sequences, FiniteSets, TLC

VARIABLES
    \* ---- executor retry loop (one call of executeGraphQLRequestFramework)
    pc,          \* "idle" | "loop" | "done"
    attempt,     \* the loop variable `attempt`
    sent,        \* HTTP requests sent by the current call
    last,        \* result of the latest executeSingleGraphQLRequest
    prev,        \* result of the attempt before the latest one (Nil if none)
    ret,         \* what the call returned (Nil while running)
    lastSleep,   \* the latest time.Sleep argument, in ticks (0 if none)
    cancelled,   \* ctx of the current call is done
    lateAttempts, \* attempts the current call started after ctx was done
    \* ---- rate limiters (globals of query_executor.go) and goroutines
    queryRateLimiter, mutationRateLimiter,  \* Nil or the address of a limiter
    rateLimitMutex,                         \* Nil or the goroutine holding it
    heap,        \* address -> limiter object
    now,         \* the clock, in ticks
    qDelay, mDelay,  \* config.QueryRateLimitDelay, config.MutationRateLimitDelay
    gpc,         \* goroutine -> position in executeGraphQLRequestFramework
    gMut,        \* goroutine -> isMutation of its current call
    gLim,        \* goroutine -> local variable `limiter`
    gWake,       \* goroutine -> time its reservation allows it to act
    gCalls,      \* goroutine -> calls started
    built,       \* class -> how many limiters of the class were constructed
    passes,      \* class -> times at which operations passed the gate
    waitedOn,    \* class -> addresses of the limiters operations waited on
    \* ---- the reconciliation engine and the state bus
    cfg,         \* the configuration of the resource
    state,       \* the state of the resource on the state bus, or Absent
    before,      \* the state the latest handler started with
    lastOp,      \* the latest handler
    lastAns,     \* what the server answered to its read (Create, Read) or delete
    lastOk,      \* it ended without an error diagnostic
    lastData,    \* its model when it ended
    lastReqs,    \* the requests it sent, in order
    lastAnswers, \* what the server answered to the mutations of a Create and to
                 \* the requests of an Update, in order
    \* ---- one call of a function of the provider, taken alone
    called,      \* the function that was called, "none" before the call
    args,        \* the arguments of the call
    result       \* what the call returned

execVars == <<pc, attempt, sent, last, prev, ret, lastSleep, cancelled, lateAttempts>>
rateVars == <<queryRateLimiter, mutationRateLimiter, rateLimitMutex, heap, now,
              qDelay, mDelay, gpc, gMut, gLim, gWake, gCalls, built, passes,
              waitedOn>>
resourceVars == <<cfg, state, before, lastOp, lastAns, lastOk, lastData, lastReqs,
                  lastAnswers>>
callVars == <<called, args, result>>
vars == <<execVars, rateVars, resourceVars, callVars>>

Nil == [t |-> "nil"]
\* A pointer to the heap object at address a; the holder of a sync.Mutex
Ptr(a) == [t |-> "ptr", a |-> a]
HeldBy(g) == [t |-> "held", g |-> g]

-----------------------------------------------------------------------------
(* Strings as token sequences *)

\* strings.Contains(s, p)
Contains(s, p) ==
    \E i \in 0..(Len(s) - Len(p)) : SubSeq(s, i + 1, i + Len(p)) = p

\* strings.Index(s, p): 0-based, -1 when absent
Index(s, p) ==
    IF Contains(s, p)
    THEN CHOOSE i \in 0..(Len(s) - Len(p)) :
            /\ SubSeq(s, i + 1, i + Len(p)) = p
            /\ \A j \in 0..(i - 1) : SubSeq(s, j + 1, j + Len(p)) # p
    ELSE -1

LowerTok(w) ==
    CASE w = "Connector" -> "connector"
      [] w = "Rate"      -> "rate"
      [] w = "Not"       -> "not"
      [] w = "Deleted"   -> "deleted"
      [] w = "HTTP"      -> "http"
      [] w = "GraphQL"   -> "graphql"
      [] w = "Can't"     -> "can't"
      [] w = "Todo"      -> "todo"
      [] w = "Unable"    -> "unable"
      [] w = "Failed"    -> "failed"
      [] w = "Cannot"    -> "cannot"
      [] w = "No"        -> "no"
      [] w = "ID"        -> "id"
      [] OTHER           -> w

\* strings.ToLower(s)
ToLower(s) == [i \in 1..Len(s) |-> LowerTok(s[i])]

\* strconv.ParseInt on one token: the value, or -1 for a parse error.  The
\* value is a duration already converted from nanoseconds to ticks.
ParseInt(w) ==
    CASE w = "0" -> 0
      [] w = "3" -> 3
      [] w = "7" -> 7
      [] OTHER   -> -1

-----------------------------------------------------------------------------
(* Diagnostics *)

ErrorDiag(detail) == [severity |-> "error", detail |-> detail]
WarningDiag(detail) == [severity |-> "warning", detail |-> detail]

\* diag.Diagnostics.HasError
HasError(diags) == \E i \in 1..Len(diags) : diags[i].severity = "error"


-----------------------------------------------------------------------------
(* executeSingleGraphQLRequest: what one HTTP exchange returns *)

Q == "\""
RetryAfterBody(n) == <<"{", Q, "retryAfterNS", Q, ":", n, "}">>

RetryAfterWithMessage(n) ==
    <<"{", Q, "retryAfterNS", Q, ":", n, ",", Q, "message", Q, ":", Q, "slow", "down", Q, "}">>

\* Bodies of non-200 answers
ErrBodies ==
    { <<>>,
      <<"Too", "many", "requests">>,
      <<"Rate", "limit", "exceeded">>,
      <<"already", "exists">>,
      <<"version", "conflict">>,
      RetryAfterBody("3"),
      RetryAfterBody("0"),
      RetryAfterWithMessage("7"),
      <<"{", Q, "retryAfterNS", Q, ":", "soon">> }

ErrStatuses == {"429", "409", "500"}

\* What the network and the server can answer to one request
HttpAnswers ==
    { [kind |-> "net", status |-> "", body |-> <<"connection", "refused">>] }
    \cup { [kind |-> "http", status |-> s, body |-> b] :
             s \in ErrStatuses, b \in ErrBodies }
    \cup { [kind |-> "http", status |-> "200", body |-> b] :
             b \in { <<"{", "}">>, <<"<", "html", ">">> } }

\* json.Unmarshal(bodyBytes, &queryResponse) succeeds
ParsesAsJSON(body) == Len(body) > 0 /\ body[1] = "{"

\* A 200 answer that does not parse is returned as no result and no error
unparsedIsNoResultMutant(h) ==
    IF h.kind = "net"
    THEN [resp |-> Nil, bytes |-> Nil,
          diags |-> << ErrorDiag(<<"failed", "to", "execute", "request", ":">>
                                 \o h.body) >>]
    ELSE IF h.status # "200"
    THEN [resp |-> Nil, bytes |-> Nil,
          diags |-> << ErrorDiag(<<"received", "HTTP", h.status, ":">>
                                 \o h.body) >>]
    ELSE IF ~ParsesAsJSON(h.body)
    THEN [resp |-> Nil, bytes |-> Nil, diags |-> <<>>]
    ELSE [resp |-> [doc |-> h.body], bytes |-> [doc |-> h.body], diags |-> <<>>]

executeSingleGraphQLRequest(h) ==
    IF h.kind = "net"
    THEN [resp |-> Nil, bytes |-> Nil,
          diags |-> << ErrorDiag(<<"failed", "to", "execute", "request", ":">>
                                 \o h.body) >>]
    ELSE IF h.status # "200"
    THEN [resp |-> Nil, bytes |-> Nil,
          diags |-> << ErrorDiag(<<"received", "HTTP", h.status, ":">>
                                 \o h.body) >>]
    ELSE IF ~ParsesAsJSON(h.body)
    THEN [resp |-> Nil, bytes |-> Nil,
          diags |-> << ErrorDiag(<<"failed", "to", "parse", "response", ":">>
                                 \o <<"invalid", "character">>) >>]
    ELSE [resp |-> [doc |-> h.body], bytes |-> [doc |-> h.body], diags |-> <<>>]

-----------------------------------------------------------------------------
(* Error classification and the retry delay *)

isRateLimitError(diags) ==
    \E i \in 1..Len(diags) :
        \/ Contains(diags[i].detail, <<"HTTP", "429">>)
        \/ Contains(diags[i].detail, <<"Rate", "limit">>)

isBusinessLogicError(diags) ==
    \E i \in 1..Len(diags) :
        \/ Contains(diags[i].detail, <<"Can't", "enable", "multiple", "versions">>)
        \/ Contains(diags[i].detail, <<"already", "enabled">>)
        \/ Contains(diags[i].detail, <<"already", "exists">>)
        \/ Contains(diags[i].detail, <<"conflict">>)

\* The retryAfterNS value of one detail string: [ok, v]
RetryAfterOf(detail) ==
    LET pat   == <<Q, "retryAfterNS", Q, ":">>
        start == Index(detail, pat)
    IN  IF ~(Contains(detail, <<"HTTP", "429">>) /\ Contains(detail, <<"retryAfterNS">>))
        THEN [ok |-> FALSE, v |-> 0]
        ELSE IF start = -1 THEN [ok |-> FALSE, v |-> 0]
        ELSE LET rest == SubSeq(detail, start + Len(pat) + 1, Len(detail))
                 ec   == Index(rest, <<",">>)
                 end  == IF ec = -1 THEN Index(rest, <<"}">>) ELSE ec
             IN  IF end = -1 THEN [ok |-> FALSE, v |-> 0]
                 ELSE LET retryStr == SubSeq(rest, 1, end)
                      IN  IF Len(retryStr) = 1 /\ ParseInt(retryStr[1]) # -1
                          THEN [ok |-> TRUE, v |-> ParseInt(retryStr[1])]
                          ELSE [ok |-> FALSE, v |-> 0]

RECURSIVE parseRetryDelayFrom(_, _)
parseRetryDelayFrom(diags, i) ==
    IF i > Len(diags) THEN 0
    ELSE IF RetryAfterOf(diags[i].detail).ok
         THEN RetryAfterOf(diags[i].detail).v
         ELSE parseRetryDelayFrom(diags, i + 1)

parseRetryDelay(diags) == parseRetryDelayFrom(diags, 1)

\* One retry more than the code allows
oneMoreRetryMutant == 5 + 1
maxRetries == 5
baseDelay == 10
jitterStep == 1

\* The fallback delay of lines 158-161
backoffDelay(a) == (a + 1) * baseDelay + (a + 1) * jitterStep

\* The delay the server names is ignored
backoffOnlyMutant(diags, a) == backoffDelay(a)
\* The argument of the time.Sleep before the next attempt
retrySleep(diags, a) ==
    IF parseRetryDelay(diags) > 0 THEN parseRetryDelay(diags) ELSE backoffDelay(a)

\* Any failed attempt is followed by another one
retryAnyErrorMutant(diags, a) == a < maxRetries
\* Lines 145-146: the attempt is followed by another one
shouldRetry(diags, a) == isRateLimitError(diags) /\ a < maxRetries

-----------------------------------------------------------------------------
(* The retry loop of executeGraphQLRequestFramework, one HTTP exchange per step *)

StartCall ==
    /\ pc = "idle"
    /\ pc' = "loop"
    /\ attempt' = 0
    /\ sent' = 0
    /\ last' = Nil
    /\ prev' = Nil
    /\ ret' = Nil
    /\ lastSleep' = 0
    /\ cancelled' = FALSE
    /\ lateAttempts' = 0
    /\ UNCHANGED <<rateVars, resourceVars, callVars>>

\* What client.Do returns once ctx is done
CancelledAnswer == [kind |-> "net", status |-> "", body |-> <<"context", "canceled">>]

\* Lines 137-186 for the result r of executeSingleGraphQLRequest
AttemptEnds(r) ==
    /\ sent' = sent + 1
    /\ prev' = last
    /\ last' = r
    /\ IF ~HasError(r.diags)
       THEN /\ ret' = r
            /\ pc' = "done"
            /\ UNCHANGED <<attempt, lastSleep>>
       ELSE IF shouldRetry(r.diags, attempt)
       THEN /\ lastSleep' = retrySleep(r.diags, attempt)
            /\ attempt' = attempt + 1
            /\ UNCHANGED <<pc, ret>>
       ELSE /\ ret' = r
            /\ pc' = "done"
            /\ UNCHANGED <<attempt, lastSleep>>

\* One turn of the loop: the exchange, and the sleep if there is one.  With
\* ctx done the exchange fails at once
Attempt(h) ==
    /\ pc = "loop"
    /\ attempt <= maxRetries
    /\ cancelled <=> h = CancelledAnswer
    /\ AttemptEnds(executeSingleGraphQLRequest(h))
    /\ lateAttempts' = IF cancelled THEN lateAttempts + 1 ELSE lateAttempts
    /\ UNCHANGED cancelled
    /\ UNCHANGED <<rateVars, resourceVars, callVars>>

\* ctx is cancelled while the exchange of a turn is under way
Interrupt ==
    /\ pc = "loop"
    /\ attempt <= maxRetries
    /\ ~cancelled
    /\ cancelled' = TRUE
    /\ AttemptEnds(executeSingleGraphQLRequest(CancelledAnswer))
    /\ UNCHANGED lateAttempts
    /\ UNCHANGED <<rateVars, resourceVars, callVars>>

\* ctx is cancelled between two exchanges: during the time.Sleep of a retry,
\* or before the first exchange
Cancel ==
    /\ pc = "loop"
    /\ ~cancelled
    /\ cancelled' = TRUE
    /\ UNCHANGED <<pc, attempt, sent, last, prev, ret, lastSleep, lateAttempts>>
    /\ UNCHANGED <<rateVars, resourceVars, callVars>>

\* The caller has the result; the next call may start
Return ==
    /\ pc = "done"
    /\ pc' = "idle"
    /\ UNCHANGED <<attempt, sent, last, prev, ret, lastSleep, cancelled, lateAttempts>>
    /\ UNCHANGED <<rateVars, resourceVars, callVars>>

InitExec ==
    /\ pc = "idle"
    /\ attempt = 0
    /\ sent = 0
    /\ last = Nil
    /\ prev = Nil
    /\ ret = Nil
    /\ lastSleep = 0
    /\ cancelled = FALSE
    /\ lateAttempts = 0

NextExec ==
    \/ StartCall
    \/ \E h \in HttpAnswers \cup {CancelledAnswer} : Attempt(h)
    \/ Interrupt
    \/ Cancel
    \/ Return


-----------------------------------------------------------------------------
(* The rate-limiter gate of executeGraphQLRequestFramework (lines 113-134),  *)
(* run by concurrent goroutines against the package-level limiters           *)

NumGoroutines == 2
MaxCallsPerGoroutine == 2
MaxDelay == 2
MaxTime == 3

Goroutines == 1..NumGoroutines
Classes == {"query", "mutation"}

classOf(isMutation) == IF isMutation THEN "mutation" ELSE "query"
delayOf(c) == IF c = "mutation" THEN mDelay ELSE qDelay

\* rate.NewLimiter(rate.Every(d), 1): a bucket of one token, full at first
\* use.  Tokens are counted in ticks: d ticks make one token.
NewLimiter(d) == [every |-> d, tokens |-> d, lastT |-> now]

\* rate.Limiter.reserveN(now, 1) of a limiter of burst 1: the bucket refills
\* with the time elapsed, one token is taken, a negative balance is waited.
reserve(lim) ==
    LET filled  == lim.tokens + (now - lim.lastT)
        avail   == IF filled > lim.every THEN lim.every ELSE filled
        balance == avail - lim.every
    IN  [lim  |-> [every |-> lim.every, tokens |-> balance, lastT |-> now],
         wake |-> IF balance < 0 THEN now - balance ELSE now]


\* A limiter is built whatever the delay
limiterAlwaysBuiltMutant(d) == TRUE
\* Lines 32 and 35: a limiter is built for a delay above zero only
limiterEnabled(d) == d > 0

\* Line 117: the unsynchronised test that decides on initialisation
needsInit == queryRateLimiter = Nil \/ mutationRateLimiter = Nil

InitRate ==
    /\ queryRateLimiter = Nil
    /\ mutationRateLimiter = Nil
    /\ rateLimitMutex = Nil
    /\ heap = <<>>
    /\ now = 0
    /\ qDelay \in 0..MaxDelay
    /\ mDelay \in 0..MaxDelay
    /\ gpc = [g \in Goroutines |-> "idle"]
    /\ gMut = [g \in Goroutines |-> FALSE]
    /\ gLim = [g \in Goroutines |-> Nil]
    /\ gWake = [g \in Goroutines |-> 0]
    /\ gCalls = [g \in Goroutines |-> 0]
    /\ built = [c \in Classes |-> 0]
    /\ passes = [c \in Classes |-> <<>>]
    /\ waitedOn = [c \in Classes |-> {}]

\* A goroutine enters executeGraphQLRequestFramework (line 114)
Begin(g, m) ==
    /\ gpc[g] = "idle"
    /\ gCalls[g] < MaxCallsPerGoroutine
    /\ gCalls' = [gCalls EXCEPT ![g] = @ + 1]
    /\ gMut' = [gMut EXCEPT ![g] = m]
    /\ gpc' = [gpc EXCEPT ![g] = "check"]
    /\ UNCHANGED <<queryRateLimiter, mutationRateLimiter, rateLimitMutex, heap,
                   now, qDelay, mDelay, gLim, gWake, built, passes, waitedOn>>
    /\ UNCHANGED <<execVars, resourceVars, callVars>>

\* Line 117
CheckInitialized(g) ==
    /\ gpc[g] = "check"
    /\ gpc' = [gpc EXCEPT ![g] = IF needsInit THEN "lock" ELSE "pick"]
    /\ UNCHANGED <<queryRateLimiter, mutationRateLimiter, rateLimitMutex, heap,
                   now, qDelay, mDelay, gMut, gLim, gWake, gCalls, built,
                   passes, waitedOn>>
    /\ UNCHANGED <<execVars, resourceVars, callVars>>

\* initializeRateLimiters, lines 29-34: take the mutex, build the query limiter
LockAndSetQuery(g) ==
    /\ gpc[g] = "lock"
    /\ rateLimitMutex = Nil
    /\ rateLimitMutex' = HeldBy(g)
    /\ IF limiterEnabled(qDelay)
       THEN /\ heap' = Append(heap, NewLimiter(qDelay))
            /\ queryRateLimiter' = Ptr(Len(heap) + 1)
            /\ built' = [built EXCEPT !["query"] = @ + 1]
       ELSE UNCHANGED <<heap, queryRateLimiter, built>>
    /\ gpc' = [gpc EXCEPT ![g] = "setM"]
    /\ UNCHANGED <<mutationRateLimiter, now, qDelay, mDelay, gMut, gLim, gWake,
                   gCalls, passes, waitedOn>>
    /\ UNCHANGED <<execVars, resourceVars, callVars>>

\* initializeRateLimiters, lines 35-38: build the mutation limiter, unlock
SetMutationAndUnlock(g) ==
    /\ gpc[g] = "setM"
    /\ rateLimitMutex = HeldBy(g)
    /\ rateLimitMutex' = Nil
    /\ IF limiterEnabled(mDelay)
       THEN /\ heap' = Append(heap, NewLimiter(mDelay))
            /\ mutationRateLimiter' = Ptr(Len(heap) + 1)
            /\ built' = [built EXCEPT !["mutation"] = @ + 1]
       ELSE UNCHANGED <<heap, mutationRateLimiter, built>>
    /\ gpc' = [gpc EXCEPT ![g] = "pick"]
    /\ UNCHANGED <<queryRateLimiter, now, qDelay, mDelay, gMut, gLim, gWake,
                   gCalls, passes, waitedOn>>
    /\ UNCHANGED <<execVars, resourceVars, callVars>>

\* Lines 122-129: read the limiter of the class; without one the gate is open
PickLimiter(g) ==
    LET lim == IF gMut[g] THEN mutationRateLimiter ELSE queryRateLimiter
        c   == classOf(gMut[g])
    IN
    /\ gpc[g] = "pick"
    /\ gLim' = [gLim EXCEPT ![g] = lim]
    /\ IF lim = Nil
       THEN /\ passes' = [passes EXCEPT ![c] = Append(@, now)]
            /\ gpc' = [gpc EXCEPT ![g] = "idle"]
       ELSE /\ gpc' = [gpc EXCEPT ![g] = "wait"]
            /\ UNCHANGED passes
    /\ UNCHANGED <<queryRateLimiter, mutationRateLimiter, rateLimitMutex, heap,
                   now, qDelay, mDelay, gMut, gWake, gCalls, built, waitedOn>>
    /\ UNCHANGED <<execVars, resourceVars, callVars>>

\* Line 130, limiter.Wait: the reservation
Reserve(g) ==
    LET r == reserve(heap[gLim[g].a])
        c == classOf(gMut[g])
    IN
    /\ gpc[g] = "wait"
    /\ heap' = [heap EXCEPT ![gLim[g].a] = r.lim]
    /\ gWake' = [gWake EXCEPT ![g] = r.wake]
    /\ waitedOn' = [waitedOn EXCEPT ![c] = @ \cup {gLim[g]}]
    /\ gpc' = [gpc EXCEPT ![g] = "sleep"]
    /\ UNCHANGED <<queryRateLimiter, mutationRateLimiter, rateLimitMutex, now,
                   qDelay, mDelay, gMut, gLim, gCalls, built, passes>>
    /\ UNCHANGED <<execVars, resourceVars, callVars>>

\* Line 130, limiter.Wait returns when the reserved time has come
PassGate(g) ==
    LET c == classOf(gMut[g]) IN
    /\ gpc[g] = "sleep"
    /\ now >= gWake[g]
    /\ passes' = [passes EXCEPT ![c] = Append(@, now)]
    /\ gpc' = [gpc EXCEPT ![g] = "idle"]
    /\ UNCHANGED <<queryRateLimiter, mutationRateLimiter, rateLimitMutex, heap,
                   now, qDelay, mDelay, gMut, gLim, gWake, gCalls, built,
                   waitedOn>>
    /\ UNCHANGED <<execVars, resourceVars, callVars>>

\* The clock advances; a goroutine whose reserved time has come acts first
Tick ==
    /\ now < MaxTime
    /\ \A g \in Goroutines : gpc[g] = "sleep" => gWake[g] > now
    /\ now' = now + 1
    /\ UNCHANGED <<queryRateLimiter, mutationRateLimiter, rateLimitMutex, heap,
                   qDelay, mDelay, gpc, gMut, gLim, gWake, gCalls, built,
                   passes, waitedOn>>
    /\ UNCHANGED <<execVars, resourceVars, callVars>>

NextRate ==
    \/ \E g \in Goroutines, m \in BOOLEAN : Begin(g, m)
    \/ \E g \in Goroutines : CheckInitialized(g)
    \/ \E g \in Goroutines : LockAndSetQuery(g)
    \/ \E g \in Goroutines : SetMutationAndUnlock(g)
    \/ \E g \in Goroutines : PickLimiter(g)
    \/ \E g \in Goroutines : Reserve(g)
    \/ \E g \in Goroutines : PassGate(g)
    \/ Tick

\* The limiters and goroutines at rest, for the specifications that do not
\* exercise them
RateAtRest ==
    /\ queryRateLimiter = Nil
    /\ mutationRateLimiter = Nil
    /\ rateLimitMutex = Nil
    /\ heap = <<>>
    /\ now = 0
    /\ qDelay = 0
    /\ mDelay = 0
    /\ gpc = [g \in Goroutines |-> "idle"]
    /\ gMut = [g \in Goroutines |-> FALSE]
    /\ gLim = [g \in Goroutines |-> Nil]
    /\ gWake = [g \in Goroutines |-> 0]
    /\ gCalls = [g \in Goroutines |-> 0]
    /\ built = [c \in Classes |-> 0]
    /\ passes = [c \in Classes |-> <<>>]
    /\ waitedOn = [c \in Classes |-> {}]


-----------------------------------------------------------------------------
(* JSON values.  A value is a record tagged with its type; an object holds a  *)
(* function from its keys, an array a sequence.  Go's nil interface is JNull. *)

JNull == [t |-> "null"]
JStr(x) == [t |-> "str", v |-> x]
JBool(b) == [t |-> "bool", v |-> b]
JNum(n) == [t |-> "num", v |-> n]
JArr(a) == [t |-> "arr", v |-> a]
JObj(f) == [t |-> "obj", v |-> f]

NoFields == [k \in {} |-> JNull]
IsObj(x) == x.t = "obj"
Has(f, k) == k \in DOMAIN f
\* f with key k set to x
Put(f, k, x) == [j \in DOMAIN f \cup {k} |-> IF j = k THEN x ELSE f[j]]
\* f without the keys of ks
Without(f, ks) == [j \in DOMAIN f \ ks |-> f[j]]
One(k, x) == [j \in {k} |-> x]

\* A numeric path segment as an array index, -1 for any other segment
SegIndex(seg) ==
    CASE seg = "0" -> 0
      [] seg = "1" -> 1
      [] seg = "2" -> 2
      [] seg = "3" -> 3
      [] OTHER     -> -1

\* gjson.Get(json, path) for a path of plain dot-separated segments
RECURSIVE gjsonGet(_, _)
gjsonGet(x, path) ==
    IF path = <<>> THEN [exists |-> TRUE, val |-> x]
    ELSE IF x.t = "obj"
    THEN IF Has(x.v, Head(path))
         THEN gjsonGet(x.v[Head(path)], Tail(path))
         ELSE [exists |-> FALSE, val |-> JNull]
    ELSE IF x.t = "arr"
    THEN IF SegIndex(Head(path)) >= 0 /\ SegIndex(Head(path)) < Len(x.v)
         THEN gjsonGet(x.v[SegIndex(Head(path)) + 1], Tail(path))
         ELSE [exists |-> FALSE, val |-> JNull]
    ELSE [exists |-> FALSE, val |-> JNull]

\* gjson.Result.String(): a string as it is, a number or boolean as its
\* text, null as "", an object or array as its raw JSON text
resultString(x) ==
    CASE x.t = "str"  -> x.v
      [] x.t = "bool" -> IF x.v THEN "true" ELSE "false"
      [] x.t = "num"  -> ToString(x.v)
      [] x.t = "null" -> ""
      [] OTHER        -> ToString(x)

\* hash(resBytes) printed with %d: a fixed non-empty decimal text per input
hashText(bytes) == "crc32:" \o ToString(bytes)

-----------------------------------------------------------------------------
(* computeMutationVariableKeys (graphql/keys.go) *)

\* The plain path is tried before the paths under data
lookupPlainFirstMutant(doc, path) ==
    LET r1 == gjsonGet(doc, <<"data">> \o path)
        r2 == gjsonGet(doc, <<"data", "paginatedData", "0">> \o path)
        r3 == gjsonGet(doc, path)
        r4 == gjsonGet(doc, <<"paginatedData", "0">> \o path)
    IN  IF r3.exists THEN r3
        ELSE IF r4.exists THEN r4
        ELSE IF r1.exists THEN r1
        ELSE r2
\* The result of the first of the four locations that exists
lookupKeyPath(doc, path) ==
    LET r1 == gjsonGet(doc, <<"data">> \o path)
        r2 == gjsonGet(doc, <<"data", "paginatedData", "0">> \o path)
        r3 == gjsonGet(doc, path)
        r4 == gjsonGet(doc, <<"paginatedData", "0">> \o path)
    IN  IF r1.exists THEN r1
        ELSE IF r2.exists THEN r2
        ELSE IF r3.exists THEN r3
        ELSE r4

\* The text of the error of line 50, as far as its callers search it
pathErrorText == <<"the", "path", "does", "not", "exist", "in", "the", "response">>

\* getTopLevelKeys: the keys of the response, or the one word it returns for
\* a response that is not an object
getTopLevelKeys(doc) == IF IsObj(doc) THEN DOMAIN doc.v ELSE {"error_parsing_json"}

\* The error of line 50 in full: the path, the four paths tried, the available
\* top-level keys
pathError(path, doc) ==
    [path      |-> path,
     tried     |-> << <<"data">> \o path,
                      <<"data", "paginatedData", "0">> \o path,
                      path,
                      <<"paginatedData", "0">> \o path >>,
     available |-> getTopLevelKeys(doc)]

\* The values of the keys that resolve are returned although another key
\* does not resolve
partialValuesMutant(keyMaps, doc) ==
    [ok |-> TRUE,
     vals |-> [k \in { j \in DOMAIN keyMaps : lookupKeyPath(doc, keyMaps[j]).exists } |->
                  resultString(lookupKeyPath(doc, keyMaps[k]).val)],
     err |-> <<>>]
\* [ok, vals, err]: all keys resolved, or the error of the first that did not
computeMutationVariableKeys(keyMaps, doc) ==
    IF \A k \in DOMAIN keyMaps : lookupKeyPath(doc, keyMaps[k]).exists
    THEN [ok |-> TRUE,
          vals |-> [k \in DOMAIN keyMaps |->
                       resultString(lookupKeyPath(doc, keyMaps[k]).val)],
          err |-> <<>>]
    ELSE [ok |-> FALSE, vals |-> [k \in {} |-> ""], err |-> pathErrorText]

\* The errors computeMutationVariableKeys can return: the one of the first key
\* visited that does not resolve (Go visits the keys in an unspecified order)
computeKeysErrors(keyMaps, doc) ==
    { pathError(keyMaps[k], doc) :
        k \in { j \in DOMAIN keyMaps : ~lookupKeyPath(doc, keyMaps[j]).exists } }

-----------------------------------------------------------------------------
(* StateComparison.ValuesEqual and findChangedFields *)

\* strings.TrimSpace
TrimSpace(x) == IF x = " a " THEN "a" ELSE x

\* The strings of the model in sort.Strings order
StrOrder == <<"", " a ", "__secret_content__", "a", "abc", "b", "d1", "x", "y">>
StrRank(x) ==
    IF \E i \in 1..Len(StrOrder) : StrOrder[i] = x
    THEN CHOOSE i \in 1..Len(StrOrder) : StrOrder[i] = x
    ELSE Len(StrOrder) + 1

\* i-th smallest element (by rank, then position) of a sequence of JStr
RECURSIVE sortStrings(_)
sortStrings(a) ==
    IF a = <<>> THEN <<>>
    ELSE LET m == CHOOSE i \in 1..Len(a) :
                     \A j \in 1..Len(a) :
                         \/ StrRank(a[i].v) < StrRank(a[j].v)
                         \/ (StrRank(a[i].v) = StrRank(a[j].v) /\ i <= j)
         IN  <<a[m]>> \o sortStrings(SubSeq(a, 1, m - 1) \o SubSeq(a, m + 1, Len(a)))

isEffectivelyNull(x) ==
    CASE x.t = "null" -> TRUE
      [] x.t = "obj"  -> \A k \in DOMAIN x.v : x.v[k] = JNull
      [] x.t = "arr"  -> \A i \in 1..Len(x.v) : x.v[i] = JNull
      [] OTHER        -> FALSE

RECURSIVE normalizeValue(_)
normalizeValue(x) ==
    CASE x.t = "str" -> JStr(TrimSpace(x.v))
      [] x.t = "obj" -> JObj([k \in DOMAIN x.v |-> normalizeValue(x.v[k])])
      [] x.t = "arr" ->
            IF \A i \in 1..Len(x.v) : x.v[i].t = "str"
            THEN JArr(sortStrings(x.v))
            ELSE JArr([i \in 1..Len(x.v) |-> normalizeValue(x.v[i])])
      [] OTHER -> x

\* The sentinel of secret fields is compared like any other string
secretIsPlainStringMutant(desired, current) ==
    IF desired = JNull \/ current = JNull
    THEN isEffectivelyNull(desired) /\ isEffectivelyNull(current)
    ELSE normalizeValue(desired) = normalizeValue(current)
RECURSIVE ValuesEqual(_, _)
ValuesEqual(desired, current) ==
    IF desired = JNull /\ current = JNull THEN TRUE
    ELSE IF desired = JNull THEN isEffectivelyNull(current)
    ELSE IF current = JNull THEN isEffectivelyNull(desired)
    ELSE IF current = JStr("__secret_content__") THEN TRUE
    ELSE IF desired.t = current.t /\ desired.t \in {"bool", "str", "num"}
    THEN desired.v = current.v
    ELSE IF desired.t = "obj" /\ current.t = "obj"
    THEN \A k \in DOMAIN desired.v :
            Has(current.v, k) /\ ValuesEqual(desired.v[k], current.v[k])
    ELSE IF desired.t = "arr" /\ current.t = "arr"
    THEN /\ Len(desired.v) = Len(current.v)
         /\ \A i \in 1..Len(desired.v) : ValuesEqual(desired.v[i], current.v[i])
    ELSE normalizeValue(desired) = normalizeValue(current)

\* The fields of the current map that the desired map lacks are reported too
reportsRemovedFieldsMutant(desired, current) ==
    [k \in { j \in DOMAIN desired :
               j # "type" /\ (~Has(current, j) \/ ~ValuesEqual(desired[j], current[j])) }
            \cup (DOMAIN current \ DOMAIN desired) |->
        IF Has(desired, k) THEN desired[k] ELSE JNull]

\* Every field of the desired map is reported, changed or not
reportsEveryFieldMutant(desired, current) ==
    [k \in DOMAIN desired \ {"type"} |-> desired[k]]

\* Fields of the desired map that differ from the current map
findChangedFields(desired, current) ==
    LET df == IF Has(desired, "patch") /\ IsObj(desired["patch"])
              THEN desired["patch"].v ELSE desired
        changed == { k \in DOMAIN df :
                       /\ k # "type"
                       /\ (~Has(current, k) \/ ~ValuesEqual(df[k], current[k])) }
    IN  [k \in changed |-> df[k]]

-----------------------------------------------------------------------------
(* ResponseExtraction.ExtractCurrentStateFromQueryResponse *)

RECURSIVE SumOver(_, _)
SumOver(f, ks) ==
    IF ks = {} THEN 0
    ELSE LET k == CHOOSE j \in ks : TRUE IN f[k] + SumOver(f, ks \ {k})

NonEmptyStr(x) == x.t = "str" /\ x.v # ""

fieldScore(key, x) ==
    CASE key = "id"          -> IF NonEmptyStr(x) THEN 20 ELSE 0
      [] key = "name"        -> IF NonEmptyStr(x) THEN 15 ELSE 0
      [] key = "enabled"     -> IF x.t = "bool" THEN 10 ELSE 0
      [] key = "status"      -> IF NonEmptyStr(x) THEN 10 ELSE 0
      [] key = "type"        -> IF NonEmptyStr(x) THEN 8 ELSE 0
      [] key = "config"      -> IF x.t = "obj" THEN 12 ELSE 0
      [] key = "authParams"  -> IF x.t = "obj" THEN 10 ELSE 0
      [] key = "extraConfig" -> IF x.t = "obj" THEN 10 ELSE 0
      [] OTHER ->
            CASE x.t = "str"  -> IF x.v # "" THEN 3 ELSE 0
              [] x.t = "bool" -> 5
              [] x.t = "obj"  -> 8
              [] x.t = "arr"  -> 4
              [] OTHER        -> 0

scoreResourceCandidate(f) ==
    SumOver([k \in DOMAIN f |-> fieldScore(k, f[k])], DOMAIN f)
        + (IF Cardinality(DOMAIN f) > 3 THEN 5 ELSE 0)

removeComputedFields(f) == Without(f, {"id", "createdAt", "updatedAt", "status"})

\* The response is returned whole, whatever it holds
returnsWholeResponseMutant(resp) == { resp }
\* Go visits the entries of a map in an unspecified order: the set of the
\* maps the function can return for one response
extractCurrentState(resp) ==
    IF Has(resp, "data") /\ IsObj(resp["data"])
    THEN LET data == resp["data"].v
             objs == { k \in DOMAIN data : IsObj(data[k]) }
             withNodes == { k \in objs :
                              /\ Has(data[k].v, "nodes")
                              /\ data[k].v["nodes"].t = "arr"
                              /\ Len(data[k].v["nodes"].v) > 0
                              /\ IsObj(data[k].v["nodes"].v[1]) }
             best == { k \in objs :
                         /\ scoreResourceCandidate(data[k].v) > 0
                         /\ \A j \in objs : scoreResourceCandidate(data[j].v)
                                               <= scoreResourceCandidate(data[k].v) }
         IN  IF withNodes # {}
             THEN { removeComputedFields(data[k].v["nodes"].v[1].v) : k \in withNodes }
             ELSE IF best # {}
             THEN { removeComputedFields(data[k].v) : k \in best }
             ELSE { resp }
    ELSE { resp }

-----------------------------------------------------------------------------
(* The resource model (GraphqlMutationResourceModel) and the state bus.       *)
(* An attribute is null, unknown or known; a known string attribute holds a   *)
(* plain string ("str") or a JSON text ("json"), a dynamic attribute holds a  *)
(* JSON value ("json").  Configurations leave compute_from_read unset.        *)

NullAttr == [k |-> "null"]
UnknownAttr == [k |-> "unknown"]
StrAttr(x) == [k |-> "str", v |-> x]
JsonAttr(j) == [k |-> "json", v |-> j]
MapAttr(f) == [k |-> "map", v |-> f]
BoolAttr(b) == [k |-> "bool", v |-> b]
Known(a) == a.k # "null" /\ a.k # "unknown"
NoStrings == [k \in {} |-> ""]
\* The empty string in an attribute that otherwise holds a JSON text
EmptyText == [k |-> "str"]

\* utils.DynamicToJSONString: "" for a null or unknown value, else its JSON text
DynamicToJSONString(dyn) == IF Known(dyn) THEN JsonAttr(dyn.v) ELSE EmptyText

\* json.Unmarshal of a non-empty text into a map[string]interface{}
unmarshalMap(text) ==
    IF text.k = "json" /\ text.v.t = "obj" THEN [ok |-> TRUE, m |-> text.v.v]
    ELSE IF text.k = "json" /\ text.v.t = "null" THEN [ok |-> TRUE, m |-> NoFields]
    ELSE [ok |-> FALSE, m |-> NoFields]

\* json.Marshal of one value as a plain string
marshalText(x) ==
    CASE x.t = "bool" -> IF x.v THEN "true" ELSE "false"
      [] x.t = "null" -> "null"
      [] x.t = "num"  -> ToString(x.v)
      [] OTHER        -> ToString(x)

\* What the executor hands back for one request, after its retries: a
\* transport failure with its detail, or the 200 response with its errors
\* array (the messages) and the rest of its body
FailAnswer(detail) == [kind |-> "fail", detail |-> detail, errors |-> <<>>, body |-> JNull]
ErrorsAnswer(msgs) == [kind |-> "ok", detail |-> <<>>, errors |-> msgs, body |-> JObj(NoFields)]
DataAnswer(body) == [kind |-> "ok", detail |-> <<>>, errors |-> <<>>, body |-> body]

\* GqlQueryResponse.Data: the data object of the body, nil (no fields) otherwise
respData(ans) ==
    IF IsObj(ans.body) /\ Has(ans.body.v, "data") /\ IsObj(ans.body.v["data"])
    THEN ans.body.v["data"].v
    ELSE NoFields

Request(op, variables) == [op |-> op, vars |-> variables]
Outcome(d, diags, reqs) == [data |-> d, diags |-> diags, reqs |-> reqs]

markResourceAsDeleted(d) ==
    [d EXCEPT !.Id = NullAttr,
              !.ComputedValues = MapAttr(NoStrings),
              !.ComputedReadOperationVariables = MapAttr(NoStrings),
              !.ComputedUpdateOperationVariables = EmptyText,
              !.ComputedCreateOperationVariables = EmptyText,
              !.ComputedDeleteOperationVariables = MapAttr(NoStrings),
              !.QueryResponse = EmptyText,
              !.ExistingHash = StrAttr(""),
              !.CurrentRemoteState = EmptyText]

\* No transport error is read as a deletion
transportNeverMeansDeletedMutant(detail) == FALSE
\* readResource, lines 1043-1052: a transport error that is read as a deletion
transportErrorMeansDeleted(detail) ==
    LET m == ToLower(detail) IN
    \/ Contains(m, <<"not", "found">>)
    \/ Contains(m, <<"cannot", "return", "null", "for", "non-nullable", "field">>)
    \/ Contains(m, <<"deleted">>)
    \/ Contains(m, <<"does", "not", "exist">>)
    \/ Contains(m, <<"was", "deleted">>)
    \/ Contains(m, <<"deployment", "not", "found">>)
    \/ Contains(m, <<"connector", "was", "deleted">>)
    \/ Contains(m, <<"404">>)
    \/ Contains(m, <<"resource", "not", "found">>)

\* readResource, lines 1067-1079: one GraphQL error message that is read as a deletion
messageMeansDeleted(msg) ==
    LET m == ToLower(msg) IN
    \/ Contains(m, <<"deleted">>)
    \/ Contains(m, <<"not", "found">>)
    \/ Contains(m, <<"does", "not", "exist">>)
    \/ Contains(m, <<"was", "deleted">>)
    \/ Contains(m, <<"deployment", "not", "found">>)
    \/ Contains(m, <<"connector", "was", "deleted">>)
    \/ Contains(m, <<"resource", "not", "found">>)
    \/ Contains(m, <<"cannot", "return", "null">>)
    \/ Contains(m, <<"null", "for", "non-nullable">>)

\* The resource counts as deleted only if every message says so
allMessagesMeanDeletedMutant(msgs) == \A i \in 1..Len(msgs) : messageMeansDeleted(msgs[i])
\* No message is ever read as a deletion
noMessageMeansDeletedMutant(msgs) == FALSE
\* Lines 1065-1083: the errors array makes readResource mark the resource deleted
errorsMeanDeleted(msgs) == \E i \in 1..Len(msgs) : messageMeansDeleted(msgs[i])

RECURSIVE joinMessages(_)
joinMessages(msgs) ==
    IF msgs = <<>> THEN <<>>
    ELSE <<"{">> \o Head(msgs) \o <<"}">> \o joinMessages(Tail(msgs))

\* Line 1091: fmt.Sprintf("GraphQL server returned errors: %v", queryResponse.Errors)
readErrorText(msgs) ==
    <<"GraphQL", "server", "returned", "errors", ":", "[">> \o joinMessages(msgs) \o <<"]">>

\* Lines 1096-1124
hasValidData(dataMap) ==
    \E k \in DOMAIN dataMap :
        /\ dataMap[k] # JNull
        /\ ~(dataMap[k].t = "arr" /\ Len(dataMap[k].v) = 0)
        /\ ~(dataMap[k].t = "obj" /\ DOMAIN dataMap[k].v = {})

\* Lines 1186-1190
extractionErrorMeansDeleted(err) ==
    LET m == ToLower(err) IN
    \/ Contains(m, <<"does", "not", "exist">>)
    \/ Contains(m, <<"not", "found">>)
    \/ Contains(m, <<"path">>)
    \/ Contains(m, <<"deleted">>)

\* Lines 1146-1181 with compute_from_read unset
keysToUse(d) ==
    IF Known(d.ReadComputeKeys) THEN d.ReadComputeKeys.v
    ELSE IF Known(d.ComputeMutationKeys) THEN d.ComputeMutationKeys.v
    ELSE [k \in {} |-> <<>>]

\* Lines 1201-1270: the computed values are in; the id and the hash follow
finishRead(d, body) ==
    LET vals == d.ComputedValues.v IN
    IF DOMAIN vals = {} \/ \A k \in DOMAIN vals : vals[k] = ""
    THEN markResourceAsDeleted(d)
    ELSE [d EXCEPT !.Id = IF Has(vals, "id") THEN StrAttr(vals["id"])
                          ELSE StrAttr(hashText(body)),
                   !.ExistingHash = StrAttr(hashText(body)),
                   !.ComputedCreateOperationVariables = EmptyText,
                   !.ComputedUpdateOperationVariables = EmptyText,
                   !.ComputedDeleteOperationVariables = MapAttr(NoStrings)]

\* readResource: the model after the call, its diagnostics, the requests sent
readResource(d, ans) ==
    LET text   == DynamicToJSONString(d.ReadQueryVariables)
        parsed == IF text.k = "str" THEN [ok |-> TRUE, m |-> NoFields]
                  ELSE unmarshalMap(text)
        cv     == IF Known(d.ComputedValues) THEN d.ComputedValues.v ELSE NoStrings
        withCV == [k \in DOMAIN parsed.m \cup DOMAIN cv |->
                      IF k \in DOMAIN cv THEN JStr(cv[k]) ELSE parsed.m[k]]
        computedVariables ==
                  IF Known(d.Id) THEN Put(withCV, "id", JStr(d.Id.v)) ELSE withCV
        d1     == [d EXCEPT !.ComputedReadOperationVariables =
                      MapAttr([k \in DOMAIN computedVariables |->
                                 IF computedVariables[k].t = "str"
                                 THEN computedVariables[k].v
                                 ELSE marshalText(computedVariables[k])])]
        reqs   == << Request("read", JObj(computedVariables)) >>
        gone   == Outcome(markResourceAsDeleted(d1), <<>>, reqs)
    IN
    IF ~parsed.ok
    THEN Outcome(d, << ErrorDiag(<<"Failed", "to", "unmarshal", "read_query_variables">>) >>, <<>>)
    ELSE IF ans.kind = "fail"
    THEN IF transportErrorMeansDeleted(ans.detail)
         THEN gone
         ELSE Outcome(d1, << ErrorDiag(ans.detail) >>, reqs)
    ELSE IF ans.errors # <<>>
    THEN IF errorsMeanDeleted(ans.errors)
         THEN gone
         ELSE Outcome(d1, << ErrorDiag(readErrorText(ans.errors)) >>, reqs)
    ELSE IF Has(respData(ans), "data") /\ IsObj(respData(ans)["data"])
            /\ ~hasValidData(respData(ans)["data"].v)
    THEN gone
    ELSE IF DOMAIN respData(ans) = {}
    THEN gone
    ELSE LET d2  == [d1 EXCEPT !.QueryResponse = JsonAttr(ans.body)]
             ext == computeMutationVariableKeys(keysToUse(d2), ans.body)
         IN  IF ~ext.ok
             THEN IF extractionErrorMeansDeleted(ext.err)
                  THEN Outcome(markResourceAsDeleted(d2), <<>>, reqs)
                  ELSE Outcome(d2, << ErrorDiag(<<"Unable", "to", "compute", "keys", ":">>
                                                \o ext.err) >>, reqs)
             ELSE Outcome(finishRead([d2 EXCEPT !.ComputedValues = MapAttr(ext.vals)],
                                     ans.body), <<>>, reqs)

\* Read, lines 308-320: an error of readResource that is read as a deletion
readErrorMeansDeleted(detail) ==
    LET m == ToLower(detail) IN
    \/ Contains(m, <<"not", "found">>)
    \/ Contains(m, <<"deleted">>)
    \/ Contains(m, <<"does", "not", "exist">>)
    \/ Contains(m, <<"was", "deleted">>)
    \/ Contains(m, <<"deployment", "not", "found">>)
    \/ Contains(m, <<"connector", "was", "deleted">>)
    \/ Contains(m, <<"cannot", "return", "null", "for", "non-nullable", "field">>)

\* Read, lines 394-457: drift was found; mutation_variables and the update
\* variables are rewritten from the remote state
signalDrift(d, desiredFields, current, changed) ==
    LET wrap == Known(d.WrapUpdateInPatch) /\ d.WrapUpdateInPatch.v
        idOf == IF Has(desiredFields, "id") THEN desiredFields["id"] ELSE JNull
        newVars == IF wrap
                   THEN JObj([input |-> JObj([id |-> idOf, patch |-> JObj(current)])])
                   ELSE JObj([input |-> JObj(current)])
        patchIn == IF Known(d.ComputedValues) /\ Has(d.ComputedValues.v, "id")
                   THEN [patch |-> JObj(changed), id |-> JStr(d.ComputedValues.v["id"])]
                   ELSE [patch |-> JObj(changed)]
        updVars == IF wrap THEN JObj([input |-> JObj(patchIn)])
                   ELSE JObj([input |-> JObj(changed)])
    IN  [d EXCEPT !.MutationVariables = JsonAttr(JStr(ToString(newVars))),
                  !.ComputedUpdateOperationVariables = JsonAttr(updVars)]

\* Read, lines 340-466, for one result of extractCurrentState
compareInRead(d, current) ==
    LET text   == DynamicToJSONString(d.MutationVariables)
        parsed == IF text.k = "str" THEN [ok |-> FALSE, m |-> NoFields]
                  ELSE unmarshalMap(text)
        desiredFields == IF Has(parsed.m, "input") /\ IsObj(parsed.m["input"])
                         THEN parsed.m["input"].v ELSE parsed.m
        changed == findChangedFields(desiredFields, current)
        d1 == [d EXCEPT !.CurrentRemoteState = JsonAttr(JObj(current))]
    IN  IF ~parsed.ok THEN d
        ELSE IF DOMAIN changed # {} THEN signalDrift(d1, desiredFields, current, changed)
        ELSE d1

Absent == [k |-> "absent"]
\* The handler's model reaches the state bus even when the handler fails
resultWritesModelMutant(st, ok, d, reqs) ==
    [state |-> IF ok THEN st ELSE d, ok |-> ok, data |-> d, reqs |-> reqs]
\* How a handler ends: what the state bus holds, and what the handler did
Result(st, ok, d, reqs) == [state |-> st, ok |-> ok, data |-> d, reqs |-> reqs]

\* Read: the results the handler can end with (one per order in which the
\* response's entries are visited)
ReadResults(d0, ans) ==
    LET r == readResource(d0, ans) IN
    IF HasError(r.diags)
    THEN IF \E i \in 1..Len(r.diags) : readErrorMeansDeleted(r.diags[i].detail)
         THEN { Result(Absent, TRUE, r.data, r.reqs) }
         ELSE { Result(d0, FALSE, r.data, r.reqs) }
    ELSE IF r.data.Id = NullAttr
    THEN { Result(Absent, TRUE, r.data, r.reqs) }
    ELSE LET d1 == [r.data EXCEPT !.MutationVariables = d0.MutationVariables] IN
         IF d1.QueryResponse.k = "json" /\ IsObj(d1.QueryResponse.v)
         THEN { Result(compareInRead(d1, cur), TRUE, compareInRead(d1, cur), r.reqs) :
                  cur \in extractCurrentState(d1.QueryResponse.v.v) }
         ELSE { Result(d1, TRUE, d1, r.reqs) }

-----------------------------------------------------------------------------
(* Pagination (graphql/query_executor.go) *)

\* GqlQueryResponse.Data == nil
dataIsNil(ans) ==
    ~(IsObj(ans.body) /\ Has(ans.body.v, "data") /\ IsObj(ans.body.v["data"]))

\* An after entry of the caller is kept in place of the cursor
callerCursorKeptMutant(inputVariables, cursor) ==
    IF cursor # "" /\ ~Has(inputVariables, "after")
    THEN Put(inputVariables, "after", JStr(cursor)) ELSE inputVariables
prepareQueryVariables(inputVariables, cursor) ==
    IF cursor # "" THEN Put(inputVariables, "after", JStr(cursor)) ELSE inputVariables

\* hasNextPage is not consulted: the loop goes on while there is a cursor
pageAlwaysHasNextMutant(d, more, cursor) ==
    [data |-> d, hasNextPage |-> TRUE, endCursor |-> cursor]
Page(d, more, cursor) == [data |-> d, hasNextPage |-> more, endCursor |-> cursor]

\* extractPaginatedData: the results it can return for one data map (the
\* first entry visited that looks like a connection wins)
extractPaginatedData(data) ==
    LET paged == { k \in DOMAIN data :
                     /\ IsObj(data[k])
                     /\ Has(data[k].v, "edges")
                     /\ Has(data[k].v, "pageInfo")
                     /\ IsObj(data[k].v["pageInfo"]) }
        info(k) == data[k].v["pageInfo"].v
    IN  IF paged # {}
        THEN { Page(data[k],
                    /\ Has(info(k), "hasNextPage")
                    /\ info(k)["hasNextPage"].t = "bool"
                    /\ info(k)["hasNextPage"].v,
                    IF Has(info(k), "endCursor") /\ info(k)["endCursor"].t = "str"
                    THEN info(k)["endCursor"].v ELSE "") : k \in paged }
        ELSE { Page(JObj(data), FALSE, "") }

\* json.Marshal(combinedResponse): a nil slice is null and its omitempty
\* field is left out
combinedResponse(allData) ==
    IF allData = <<>>
    THEN JObj([data |-> JObj([paginatedData |-> JNull])])
    ELSE JObj([data |-> JObj([paginatedData |-> JArr(allData)]),
               paginatedResponseData |-> JArr(allData)])

Paged(diags, allData, reqs, left) ==
    [diags |-> diags, all |-> allData, reqs |-> reqs, left |-> left]

\* executePaginatedQueryFramework from one turn of its loop on: the runs it
\* can make against the answers the server gives in turn
RECURSIVE paginate(_, _, _, _, _, _)
paginate(op, inputVariables, answers, cursor, allData, reqs) ==
    IF answers = <<>> THEN {}
    ELSE LET ans == Head(answers)
             rq  == Append(reqs, Request(op, JObj(prepareQueryVariables(inputVariables, cursor))))
             pages == IF dataIsNil(ans) THEN { Page(JNull, FALSE, "") }
                      ELSE extractPaginatedData(respData(ans))
             grown(pg) == IF pg.data = JNull THEN allData ELSE Append(allData, pg.data)
         IN  IF ans.kind = "fail"
             THEN { Paged(<< ErrorDiag(ans.detail) >>, <<>>, rq, Tail(answers)) }
             ELSE IF ans.errors # <<>>
             THEN { Paged([i \in 1..Len(ans.errors) |-> ErrorDiag(ans.errors[i])],
                          <<>>, rq, Tail(answers)) }
             ELSE UNION { IF pg.hasNextPage /\ pg.endCursor # ""
                          THEN paginate(op, inputVariables, Tail(answers),
                                        pg.endCursor, grown(pg), rq)
                          ELSE { Paged(<<>>, grown(pg), rq, Tail(answers)) } :
                          pg \in pages }

-----------------------------------------------------------------------------
(* Create, Delete and ImportState *)

Hooked(d, diags, reqs, bytes) ==
    [data |-> d, diags |-> diags, reqs |-> reqs, bytes |-> bytes]

\* executeCreateHook, lines 773-799, for one run of the paginated execution
finishCreateHook(d, run) ==
    LET bytes == combinedResponse(run.all)
        d1    == [d EXCEPT !.ExistingHash = StrAttr(hashText(bytes))]
        keys  == IF Known(d.ComputeMutationKeys) THEN d.ComputeMutationKeys.v
                 ELSE [k \in {} |-> <<>>]
        ext   == computeMutationVariableKeys(keys, bytes)
    IN  IF HasError(run.diags) THEN Hooked(d, run.diags, run.reqs, JNull)
        ELSE IF ~ext.ok
        THEN Hooked(d1, << ErrorDiag(<<"Unable", "to", "compute", "keys", "from",
                                       "create", "response", ":">> \o ext.err) >>,
                    run.reqs, JNull)
        ELSE Hooked([d1 EXCEPT !.ComputedValues = MapAttr(ext.vals)], <<>>, run.reqs, bytes)

executeCreateHook(d, answers) ==
    LET text   == DynamicToJSONString(d.MutationVariables)
        d1     == [d EXCEPT
                     !.ComputedCreateOperationVariables = text,
                     !.ComputedUpdateOperationVariables = EmptyText,
                     !.ComputedDeleteOperationVariables =
                         MapAttr([variables |->
                                    ToString(JObj([input |-> JObj([id |-> JStr("")])]))])]
        parsed == IF text.k = "str" THEN [ok |-> TRUE, m |-> NoFields]
                  ELSE unmarshalMap(text)
    IN  IF ~parsed.ok
        THEN IF answers = <<>>
             THEN { Hooked(d1, << ErrorDiag(<<"failed", "to", "unmarshal", "variables">>) >>,
                           <<>>, JNull) }
             ELSE {}
        ELSE { finishCreateHook(d1, run) :
                 run \in { x \in paginate("create", parsed.m, answers, "", <<>>, <<>>) :
                             x.left = <<>> } }

\* Create, lines 242-280: what is still null or unknown gets its default
ensureKnown(a, default) == IF Known(a) THEN a ELSE default

CreateResults(plan, answers, readAns) ==
    { IF HasError(c.diags)
      THEN Result(Absent, FALSE, c.data, c.reqs)
      ELSE LET r  == readResource([c.data EXCEPT !.QueryResponse = JsonAttr(c.bytes)],
                                  readAns)
               d  == r.data
               d1 == [d EXCEPT
                        !.Id = ensureKnown(d.Id, StrAttr(hashText(c.bytes))),
                        !.ComputedValues = ensureKnown(d.ComputedValues, MapAttr(NoStrings)),
                        !.ComputedReadOperationVariables =
                            ensureKnown(d.ComputedReadOperationVariables, MapAttr(NoStrings)),
                        !.ExistingHash = ensureKnown(d.ExistingHash, StrAttr(hashText(c.bytes))),
                        !.ComputedUpdateOperationVariables =
                            ensureKnown(d.ComputedUpdateOperationVariables, EmptyText),
                        !.ComputedDeleteOperationVariables =
                            ensureKnown(d.ComputedDeleteOperationVariables, MapAttr(NoStrings)),
                        !.CurrentRemoteState = ensureKnown(d.CurrentRemoteState, EmptyText)]
           IN  Result(d1, TRUE, d1, c.reqs \o r.reqs) :
      c \in executeCreateHook(plan, answers) }

\* executeDeleteHook, lines 894-933: the id to delete, "" when there is none;
\* stop is the return of line 908
resolveDeleteId(d, deleteVars) ==
    LET fromVars == IF /\ Has(deleteVars, "input")
                       /\ IsObj(deleteVars["input"])
                       /\ Has(deleteVars["input"].v, "id")
                       /\ deleteVars["input"].v["id"].t = "str"
                    THEN deleteVars["input"].v["id"].v ELSE ""
        fromComputed == IF Has(d.ComputedValues.v, "id")
                        THEN d.ComputedValues.v["id"] ELSE ""
        fromId == IF Known(d.Id) THEN d.Id.v ELSE ""
    IN  IF fromVars # "" THEN [stop |-> FALSE, id |-> fromVars]
        ELSE IF ~Known(d.ComputedValues) THEN [stop |-> TRUE, id |-> ""]
        ELSE IF fromComputed # "" THEN [stop |-> FALSE, id |-> fromComputed]
        ELSE [stop |-> FALSE, id |-> fromId]

\* Lines 935-945
injectId(deleteVars, id) ==
    IF Has(deleteVars, "input") /\ IsObj(deleteVars["input"])
    THEN Put(deleteVars, "input", JObj(Put(deleteVars["input"].v, "id", JStr(id))))
    ELSE Put(deleteVars, "input", JObj([id |-> JStr(id)]))

executeDeleteHook(d, ans) ==
    LET text   == DynamicToJSONString(d.DeleteMutationVariables)
        parsed == IF text.k = "str" THEN [ok |-> TRUE, m |-> NoFields]
                  ELSE unmarshalMap(text)
        found  == resolveDeleteId(d, parsed.m)
        sentVars == JObj(injectId(parsed.m, found.id))
        reqs   == << Request("delete", sentVars) >>
    IN  IF ~parsed.ok
        THEN Outcome(d, << ErrorDiag(<<"Failed", "to", "unmarshal",
                                       "delete_mutation_variables">>) >>, <<>>)
        ELSE IF found.stop
        THEN Outcome(d, << WarningDiag(<<"Cannot", "perform", "delete", "without",
                                         "computed", "values">>) >>, <<>>)
        ELSE IF found.id = ""
        THEN Outcome(d, << ErrorDiag(<<"No", "ID", "found">>) >>, <<>>)
        ELSE IF ans.kind = "fail"
        THEN Outcome(d, << ErrorDiag(ans.detail) >>, reqs)
        ELSE IF ans.errors # <<>>
        THEN Outcome(d, [i \in 1..Len(ans.errors) |-> ErrorDiag(ans.errors[i])], reqs)
        ELSE Outcome([d EXCEPT
                        !.ComputedCreateOperationVariables = EmptyText,
                        !.ComputedUpdateOperationVariables = EmptyText,
                        !.ComputedDeleteOperationVariables =
                            MapAttr([variables |-> ToString(sentVars)])],
                     <<>>, reqs)

\* Delete: without an error the resource leaves the state bus
DeleteResult(d0, ans) ==
    LET r == executeDeleteHook(d0, ans) IN
    IF HasError(r.diags) THEN Result(d0, FALSE, r.data, r.reqs)
    ELSE Result(Absent, TRUE, r.data, r.reqs)

-----------------------------------------------------------------------------
(* Update.  update_mutation is a required attribute, so it is known in every *)
(* plan; the answers the server gives to the requests of one Update are      *)
(* drawn where the handler sends them.                                       *)

\* The variables of a request whose JSON text is given ("" sends none)
variablesOf(text) == IF text.k = "json" THEN text.v ELSE JObj(NoFields)

\* prepareUpdatePayload: the model afterwards, one per order in which the
\* entries of the query response are visited (the mutation variables of a
\* plan always convert and marshal)
prepareUpdatePayload(d) ==
    LET cv       == IF Known(d.ComputedValues) THEN d.ComputedValues.v ELSE NoStrings
        idExists == Has(cv, "id")
        text     == DynamicToJSONString(d.MutationVariables)
        parsed   == IF text.k = "str" THEN [ok |-> TRUE, m |-> NoFields]
                    ELSE unmarshalMap(text)
        desiredMutationVars == parsed.m
        hasInput == Has(desiredMutationVars, "input") /\ IsObj(desiredMutationVars["input"])
        asIs     == IF text.k = "str" THEN JsonAttr(JNull)
                    ELSE JsonAttr(JObj(desiredMutationVars))
        desiredFields == IF hasInput THEN desiredMutationVars["input"].v
                         ELSE desiredMutationVars
        remotes  == IF d.QueryResponse.k = "json" /\ IsObj(d.QueryResponse.v)
                    THEN extractCurrentState(d.QueryResponse.v.v)
                    ELSE { NoFields }
        updateVariables(currentRemoteState) ==
            LET changedFields == findChangedFields(desiredFields, currentRemoteState) IN
            IF DOMAIN changedFields # {}
            THEN JObj([input |-> JObj([id |-> JStr(cv["id"]),
                                       patch |-> JObj(changedFields)])])
            ELSE JObj(Put(Without(desiredMutationVars, {"input"}), "input",
                          JObj([id |-> JStr(cv["id"])])))
    IN  IF ~parsed.ok
        THEN { [ok |-> FALSE, data |-> d] }
        ELSE IF hasInput /\ Has(desiredMutationVars["input"].v, "patch")
        THEN { [ok |-> TRUE, data |-> [d EXCEPT !.ComputedUpdateOperationVariables = asIs]] }
        ELSE IF hasInput /\ Has(desiredMutationVars["input"].v, "id")
        THEN { [ok |-> TRUE, data |-> [d EXCEPT !.ComputedUpdateOperationVariables = asIs]] }
        ELSE IF idExists /\ cv["id"] # ""
        THEN { [ok |-> TRUE,
                data |-> [d EXCEPT !.ComputedUpdateOperationVariables =
                                      JsonAttr(updateVariables(cur))]] : cur \in remotes }
        ELSE { [ok |-> TRUE, data |-> [d EXCEPT !.ComputedUpdateOperationVariables = asIs]] }

\* The update is sent even when the payload has no patch
alwaysUpdateMutant(d) == TRUE
\* Update, lines 604-620: the local updateNeeded
updateNeeded(d) ==
    LET c      == d.ComputedUpdateOperationVariables
        parsed == unmarshalMap(c)
    IN  ~ ( /\ Known(c)
            /\ c.k = "json"
            /\ parsed.ok
            /\ Has(parsed.m, "input")
            /\ IsObj(parsed.m["input"])
            /\ ( \/ ~Has(parsed.m["input"].v, "patch")
                 \/ parsed.m["input"].v["patch"] = JNull ) )

\* No error makes the hook try the full payload
neverRejectedMutant(detail) == FALSE
\* executeUpdateHook, line 838: the error that makes the hook try the full payload
patchRejected(detail) ==
    \/ Contains(detail, <<"422">>)
    \/ Contains(detail, <<"unknown", "field">>)
    \/ Contains(detail, <<"Unprocessable", "Entity">>)

\* What the server answers to the update mutation, and to its second sending
UpdateAnswers ==
    { DataAnswer(JObj([data |-> JObj([updateTodo |-> JObj([id |-> JStr("abc")])])])),
      ErrorsAnswer(<< <<"internal", "error">>, <<"permission", "denied">> >>),
      FailAnswer(<<"received", "HTTP", "422", ":", "Unprocessable", "Entity">>),
      FailAnswer(<<"received", "HTTP", "400", ":", "unknown", "field", "patch">>),
      FailAnswer(<<"received", "HTTP", "500", ":", "internal", "error">>) }

FallbackAnswers ==
    { DataAnswer(JObj([data |-> JObj([updateTodo |-> JObj([id |-> JStr("abc")])])])),
      FailAnswer(<<"received", "HTTP", "422", ":", "Unprocessable", "Entity">>),
      FailAnswer(<<"received", "HTTP", "500", ":", "internal", "error">>) }

Sent(d, diags, reqs, answers) ==
    [data |-> d, diags |-> diags, reqs |-> reqs, answers |-> answers]

\* executeUpdateHook: the runs it can make
executeUpdateHook(d) ==
    LET c == d.ComputedUpdateOperationVariables
        updateVarsStr == IF Known(c) THEN c ELSE EmptyText
        usePatch == updateVarsStr # EmptyText
        full == DynamicToJSONString(d.MutationVariables)
        variablesToUse == IF usePatch THEN updateVarsStr ELSE full
        first  == Request("update", variablesOf(variablesToUse))
        second == Request("update", variablesOf(full))
        done(reqs, answers) ==
            Sent(IF Known(c) THEN d
                 ELSE [d EXCEPT !.ComputedUpdateOperationVariables = variablesToUse],
                 <<>>, reqs, answers)
    IN  UNION { IF ans.kind = "fail" /\ usePatch /\ patchRejected(ans.detail)
                THEN { IF again.kind = "fail"
                       THEN Sent(d, << ErrorDiag(again.detail) >>,
                                 << first, second >>, << ans, again >>)
                       ELSE done(<< first, second >>, << ans, again >>) :
                       again \in FallbackAnswers }
                ELSE IF ans.kind = "fail"
                THEN { Sent(d, << ErrorDiag(ans.detail) >>, << first >>, << ans >>) }
                ELSE { done(<< first >>, << ans >>) } :
                ans \in UpdateAnswers }

\* What the server answers to the read queries of an Update
UpdateReadAnswers ==
    { DataAnswer(JObj([data |-> JObj([todo |-> JObj([id |-> JStr("abc"),
                                                     name |-> JStr("a")])])])),
      DataAnswer(JObj([data |-> JObj([todo |-> JObj([id |-> JStr("abc"),
                                                     name |-> JStr("b")])])])),
      FailAnswer(<<"received", "HTTP", "500", ":", "internal", "error">>) }

\* One run of Update: its model, whether it ended without an error, the
\* requests it sent and the answers it got
Updated(d, ok, reqs, answers) ==
    [data |-> d, ok |-> ok, reqs |-> reqs, answers |-> answers]

\* Update, lines 651-669: the read after the update, and the remote state kept
readAfterUpdate(d, reqs, answers) ==
    LET reads == { [r |-> readResource(d, ans), ans |-> ans] : ans \in UpdateReadAnswers }
        after(r, rq, as) ==
            IF HasError(r.diags)
            THEN { Updated(r.data, FALSE, rq, as) }
            ELSE IF r.data.QueryResponse.k = "json" /\ IsObj(r.data.QueryResponse.v)
            THEN { Updated([r.data EXCEPT !.CurrentRemoteState = JsonAttr(JObj(cur))],
                           TRUE, rq, as) :
                   cur \in extractCurrentState(r.data.QueryResponse.v.v) }
            ELSE { Updated(r.data, TRUE, rq, as) }
    IN  UNION { after(v.r, reqs \o v.r.reqs,
                      IF v.r.reqs = <<>> THEN answers ELSE Append(answers, v.ans)) :
                v \in reads }

\* Update, lines 596-649: from the prepared payload to the update mutation
sendUpdate(p, reqs, answers) ==
    LET hook == IF updateNeeded(p.data) THEN executeUpdateHook(p.data)
                ELSE { Sent(p.data, <<>>, <<>>, <<>>) }
    IN  IF ~p.ok THEN { Updated(p.data, FALSE, reqs, answers) }
        ELSE UNION { IF HasError(u.diags)
                     THEN { Updated(u.data, FALSE, reqs \o u.reqs, answers \o u.answers) }
                     ELSE readAfterUpdate(u.data, reqs \o u.reqs, answers \o u.answers) :
                     u \in hook }

\* Update, lines 527-670: the path without force_replace
patchUpdate(d) ==
    LET flag == d.EnableRemoteStateVerification
        enableRemoteStateVerification == IF Known(flag) THEN flag.v ELSE TRUE
        verified == IF enableRemoteStateVerification
                    THEN { [r |-> readResource(d, ans), answers |-> << ans >>] :
                           ans \in UpdateReadAnswers }
                    ELSE { [r |-> Outcome(d, <<>>, <<>>), answers |-> <<>>] }
    IN  UNION { IF HasError(v.r.diags)
                THEN { Updated(v.r.data, FALSE, v.r.reqs, v.answers) }
                ELSE UNION { sendUpdate(p, v.r.reqs, v.answers) :
                             p \in prepareUpdatePayload(v.r.data) } :
                v \in verified }

-----------------------------------------------------------------------------
(* The engine as Terraform drives it: one resource instance, its            *)
(* configuration, and the handlers Create, Read, Delete and ImportState.     *)

S(x) == JStr(x)
Todo(id, name) == JObj([todo |-> JObj([id |-> S(id), name |-> S(name)])])

\* mutation_variables of the configuration
MutationVariableChoices ==
    { JsonAttr(JObj([input |-> JObj([name |-> S("a")])])),
      JsonAttr(JObj([name |-> S("a")])) }

\* delete_mutation_variables of the configuration
DeleteVariableChoices ==
    { NullAttr,
      JsonAttr(JObj([input |-> JObj([id |-> S("d1")])])),
      JsonAttr(JObj([input |-> JObj([id |-> S("")])])),
      JsonAttr(JObj([input |-> S("x")])),
      JsonAttr(JObj([reason |-> S("x")])) }

\* compute_mutation_keys of the configuration
KeyChoices ==
    { MapAttr([id |-> <<"todo", "id">>]),
      MapAttr([name |-> <<"todo", "name">>]),
      MapAttr([id |-> <<"todo", "id">>, name |-> <<"todo", "name">>]),
      MapAttr([k \in {} |-> <<>>]) }

WrapChoices == { NullAttr, BoolAttr(TRUE), BoolAttr(FALSE) }

\* Configurations that leave force_replace and enable_remote_state_verification unset
Configs ==
    [MutationVariables : MutationVariableChoices,
     DeleteMutationVariables : DeleteVariableChoices,
     ComputeMutationKeys : KeyChoices,
     WrapUpdateInPatch : WrapChoices,
     ForceReplace : { NullAttr },
     EnableRemoteStateVerification : { NullAttr }]

\* req.Plan of Create: the configuration, every computed attribute unknown
PlanOf(c) ==
    [k |-> "data",
     Id |-> UnknownAttr,
     MutationVariables |-> c.MutationVariables,
     ReadQueryVariables |-> NullAttr,
     DeleteMutationVariables |-> c.DeleteMutationVariables,
     ComputeMutationKeys |-> c.ComputeMutationKeys,
     ReadComputeKeys |-> NullAttr,
     WrapUpdateInPatch |-> c.WrapUpdateInPatch,
     ForceReplace |-> c.ForceReplace,
     EnableRemoteStateVerification |-> c.EnableRemoteStateVerification,
     ComputedValues |-> UnknownAttr,
     ComputedReadOperationVariables |-> UnknownAttr,
     ComputedUpdateOperationVariables |-> UnknownAttr,
     ComputedCreateOperationVariables |-> UnknownAttr,
     ComputedDeleteOperationVariables |-> UnknownAttr,
     QueryResponse |-> UnknownAttr,
     ExistingHash |-> UnknownAttr,
     CurrentRemoteState |-> UnknownAttr]

\* ImportState: the zero model with the id of the request
Imported(id) ==
    [k |-> "data",
     Id |-> StrAttr(id),
     MutationVariables |-> NullAttr,
     ReadQueryVariables |-> NullAttr,
     DeleteMutationVariables |-> NullAttr,
     ComputeMutationKeys |-> NullAttr,
     ReadComputeKeys |-> NullAttr,
     WrapUpdateInPatch |-> NullAttr,
     ForceReplace |-> NullAttr,
     EnableRemoteStateVerification |-> NullAttr,
     ComputedValues |-> NullAttr,
     ComputedReadOperationVariables |-> NullAttr,
     ComputedUpdateOperationVariables |-> NullAttr,
     ComputedCreateOperationVariables |-> NullAttr,
     ComputedDeleteOperationVariables |-> NullAttr,
     QueryResponse |-> NullAttr,
     ExistingHash |-> NullAttr,
     CurrentRemoteState |-> NullAttr]

ImportIDs == { "", "imp1" }

\* Transport failures as the executor reports them
TransportFailures ==
    { FailAnswer(<<"received", "HTTP", "500", ":", "internal", "error">>),
      FailAnswer(<<"received", "HTTP", "404", ":">>),
      FailAnswer(<<"failed", "to", "execute", "request", ":", "connection", "refused">>) }

\* Responses whose errors array is not empty
ErrorResponses ==
    { ErrorsAnswer(<< <<"Connector", "was", "deleted">> >>),
      ErrorsAnswer(<< <<"internal", "error">> >>),
      ErrorsAnswer(<< <<"internal", "error">>, <<"Todo", "not", "found">> >>),
      ErrorsAnswer(<< <<"Todo", "not", "found">>, <<"internal", "error">> >>),
      ErrorsAnswer(<< <<"internal", "error">>, <<"permission", "denied">> >>) }

\* Responses to the read query
ReadBodies ==
    { DataAnswer(JObj([data |-> Todo("abc", "a")])),
      DataAnswer(JObj([data |-> Todo("abc", "b")])),
      DataAnswer(JObj([data |-> Todo("", "")])),
      DataAnswer(JObj([data |-> Todo("", "a")])),
      DataAnswer(JObj([data |-> JObj([todo |-> JObj([id |-> S("abc")])])])),
      DataAnswer(JObj([data |-> JObj([todo |-> JNull])])),
      DataAnswer(JObj([data |-> JObj([data |-> JObj([todo |-> JNull])])])),
      DataAnswer(JObj([data |-> JNull])) }

ReadAnswers == TransportFailures \cup ErrorResponses \cup ReadBodies

\* Responses to the read query that Create sends after its mutation
CreateReadAnswers ==
    { DataAnswer(JObj([data |-> Todo("abc", "a")])),
      DataAnswer(JObj([data |-> Todo("abc", "b")])),
      DataAnswer(JObj([data |-> JObj([todo |-> JObj([id |-> S("abc")])])])),
      DataAnswer(JObj([data |-> JObj([todo |-> JNull])])),
      ErrorsAnswer(<< <<"internal", "error">> >>),
      FailAnswer(<<"received", "HTTP", "500", ":", "internal", "error">>) }

\* One page of a connection
Connection(more, cursor) ==
    DataAnswer(JObj([data |-> JObj([todos |->
        JObj([edges |-> JArr(<<>>),
              pageInfo |-> JObj([hasNextPage |-> JBool(more),
                                 endCursor |-> S(cursor)])])])]))

\* What the server answers to the requests of one Create
CreateAnswerSeqs ==
    { <<>>,
      << DataAnswer(JObj([data |-> Todo("abc", "a")])) >>,
      << DataAnswer(JObj([data |-> JObj([todo |-> JObj([name |-> S("a")])])])) >>,
      << DataAnswer(JObj([data |-> JNull])) >>,
      << FailAnswer(<<"received", "HTTP", "500", ":", "internal", "error">>) >>,
      << ErrorsAnswer(<< <<"internal", "error">> >>) >>,
      << Connection(TRUE, "c1"), DataAnswer(JObj([data |-> Todo("abc", "a")])) >>,
      << Connection(TRUE, "") >> }

DeleteAnswers ==
    { DataAnswer(JObj([data |-> JObj([deleteTodo |-> JBool(TRUE)])])),
      FailAnswer(<<"received", "HTTP", "500", ":", "internal", "error">>),
      ErrorsAnswer(<< <<"internal", "error">> >>),
      ErrorsAnswer(<< <<"Todo", "not", "found">> >>) }

NoAnswer == FailAnswer(<<>>)

\* Update, lines 509-526: force_replace deletes and creates again
forceReplace(d) ==
    LET deleted == { [del |-> executeDeleteHook(d, ans), ans |-> ans] : ans \in DeleteAnswers }
        create(del, as) ==
            IF HasError(del.diags)
            THEN { Updated(del.data, FALSE, del.reqs, as) }
            ELSE UNION { { Updated(c.data, ~HasError(c.diags),
                                   del.reqs \o c.reqs, as \o answers) :
                           c \in executeCreateHook(del.data, answers) } :
                         answers \in CreateAnswerSeqs }
    IN  UNION { create(v.del, IF v.del.reqs = <<>> THEN <<>> ELSE << v.ans >>) :
                v \in deleted }

\* Update: the results the handler can end with for a plan and a prior state
UpdateResults(plan, prior) ==
    LET d    == IF Known(prior.Id) THEN [plan EXCEPT !.Id = prior.Id] ELSE plan
        runs == IF d.ForceReplace.k = "bool" /\ d.ForceReplace.v
                THEN forceReplace(d) ELSE patchUpdate(d)
    IN  { [state   |-> IF u.ok
                       THEN [u.data EXCEPT !.MutationVariables = plan.MutationVariables]
                       ELSE prior,
           ok      |-> u.ok,
           data    |-> u.data,
           reqs    |-> u.reqs,
           answers |-> u.answers] : u \in runs }

FinishWith(op, ans, res, answers) ==
    /\ before' = state
    /\ state' = res.state
    /\ lastOp' = op
    /\ lastAns' = ans
    /\ lastOk' = res.ok
    /\ lastData' = res.data
    /\ lastReqs' = res.reqs
    /\ lastAnswers' = answers
    /\ UNCHANGED cfg

Finish(op, ans, res) == FinishWith(op, ans, res, <<>>)

Create ==
    /\ state.k = "absent"
    /\ \E answers \in CreateAnswerSeqs, readAns \in CreateReadAnswers :
         \E res \in CreateResults(PlanOf(cfg), answers, readAns) :
            FinishWith("Create", readAns, res, answers)
    /\ UNCHANGED <<execVars, rateVars, callVars>>

Read ==
    /\ state.k = "data"
    /\ \E ans \in ReadAnswers :
         \E res \in ReadResults(state, ans) : Finish("Read", ans, res)
    /\ UNCHANGED <<execVars, rateVars, callVars>>

Delete ==
    /\ state.k = "data"
    /\ \E ans \in DeleteAnswers : Finish("Delete", ans, DeleteResult(state, ans))
    /\ UNCHANGED <<execVars, rateVars, callVars>>

Update ==
    /\ state.k = "data"
    /\ \E res \in UpdateResults(PlanOf(cfg), state) :
         FinishWith("Update", NoAnswer, res, res.answers)
    /\ UNCHANGED <<execVars, rateVars, callVars>>

ImportState ==
    /\ state.k = "absent"
    /\ \E id \in ImportIDs :
         Finish("ImportState", NoAnswer, Result(Imported(id), TRUE, Imported(id), <<>>))
    /\ UNCHANGED <<execVars, rateVars, callVars>>

ResourceAtRest ==
    /\ state = Absent
    /\ before = Absent
    /\ lastOp = "none"
    /\ lastAns = NoAnswer
    /\ lastOk = TRUE
    /\ lastData = Absent
    /\ lastReqs = <<>>
    /\ lastAnswers = <<>>

InitResource ==
    /\ cfg \in Configs
    /\ ResourceAtRest

\* No resource is configured: the executor and the limiters are exercised alone
NoResource ==
    /\ cfg = [MutationVariables |-> NullAttr, DeleteMutationVariables |-> NullAttr,
              ComputeMutationKeys |-> NullAttr, WrapUpdateInPatch |-> NullAttr,
              ForceReplace |-> NullAttr, EnableRemoteStateVerification |-> NullAttr]
    /\ ResourceAtRest

\* No function is called on its own
NoCall ==
    /\ called = "none"
    /\ args = <<>>
    /\ result = <<>>

Init == InitResource /\ InitExec /\ RateAtRest /\ NoCall

Next ==
    \/ Create
    \/ Read
    \/ Delete
    \/ ImportState

Spec == Init /\ [][Next]_vars

\* The executor alone: one caller, the limiters and the engine at rest
InitExecutorOnly == InitExec /\ RateAtRest /\ NoResource /\ NoCall
SpecExec == InitExecutorOnly /\ [][NextExec]_vars

\* The limiter gate alone: the retry loop and the engine at rest
InitLimitersOnly == InitRate /\ InitExec /\ NoResource /\ NoCall
SpecRate == InitLimitersOnly /\ [][NextRate]_vars

\* Configurations of a resource that is updated in place, or replaced
UpdateConfigs ==
    [MutationVariables : MutationVariableChoices,
     DeleteMutationVariables : { NullAttr },
     ComputeMutationKeys : { MapAttr([id |-> <<"todo", "id">>]),
                             MapAttr([name |-> <<"todo", "name">>]) },
     WrapUpdateInPatch : { BoolAttr(TRUE), BoolAttr(FALSE) },
     ForceReplace : { NullAttr },
     EnableRemoteStateVerification : { NullAttr }]
    \cup
    [MutationVariables : { JsonAttr(JObj([input |-> JObj([name |-> S("a")])])) },
     DeleteMutationVariables : { NullAttr },
     ComputeMutationKeys : { MapAttr([id |-> <<"todo", "id">>]) },
     WrapUpdateInPatch : { BoolAttr(TRUE) },
     ForceReplace : { NullAttr },
     EnableRemoteStateVerification : { BoolAttr(FALSE) }]
    \cup
    [MutationVariables : { JsonAttr(JObj([input |-> JObj([name |-> S("a")])])) },
     DeleteMutationVariables : { NullAttr,
                                 JsonAttr(JObj([input |-> JObj([id |-> S("d1")])])) },
     ComputeMutationKeys : { MapAttr([id |-> <<"todo", "id">>]) },
     WrapUpdateInPatch : { NullAttr },
     ForceReplace : { BoolAttr(TRUE) },
     EnableRemoteStateVerification : { NullAttr }]

\* The engine with Update: the executor and the limiters at rest
InitUpdate ==
    /\ cfg \in UpdateConfigs
    /\ ResourceAtRest
    /\ InitExec
    /\ RateAtRest
    /\ NoCall

NextUpdate ==
    \/ Create
    \/ Read
    \/ Update
    \/ Delete

SpecUpdate == InitUpdate /\ [][NextUpdate]_vars

-----------------------------------------------------------------------------
(* Claims about the executor *)

RateLimitFailure(r) == r # Nil /\ HasError(r.diags) /\ isRateLimitError(r.diags)

\* C1 (as stated): one call of the executor sends at most 5 HTTP requests.
C1_AtMostFiveRequests == sent <= 5

\* C1 (amended): one call of the executor sends at most 6 HTTP requests, the
\* first attempt and 5 retries, however many attempts are rate-limited.
C1_AtMostSixRequests == sent <= 6

C1_SixRequestsSent ==
    pc = "done" /\ sent = 6 /\ RateLimitFailure(ret) /\ RateLimitFailure(prev)

\* C2: an attempt that failed with a business-logic error ends the call with
\* that error, whatever else the detail contains.
C2_BusinessLogicNeverRetried ==
    (last # Nil /\ HasError(last.diags) /\ isBusinessLogicError(last.diags))
        => (pc # "loop" /\ ret = last)

\* C3: a further attempt is started only after a rate-limited failure; a
\* success or any other failure ends the call after that attempt.
C3_RetryOnlyAfterRateLimit ==
    /\ (pc = "loop" /\ sent > 0) => RateLimitFailure(last)
    /\ prev # Nil => RateLimitFailure(prev)
    /\ (last # Nil /\ ~RateLimitFailure(last)) => (pc # "loop" /\ ret = last)

C3_RetriedThenEnded ==
    /\ pc = "done"
    /\ sent >= 2
    /\ RateLimitFailure(prev)
    /\ ~RateLimitFailure(last)
    /\ HasError(last.diags)

-----------------------------------------------------------------------------
(* Claims about the rate limiters *)

\* C4: with a delay D > 0 for a class, two consecutive operations of the class
\* pass the gate at least D apart, whatever the delay of the other class.
C4_GatePassesSpaced ==
    \A c \in Classes :
        delayOf(c) > 0 =>
            \A i \in 1..(Len(passes[c]) - 1) :
                passes[c][i + 1] - passes[c][i] >= delayOf(c)

\* C5: on concurrent first use the limiter of each class is constructed at most
\* once and every operation of the class waits on the same limiter instance.
C5_LimiterBuiltOnce ==
    (qDelay > 0 /\ mDelay > 0) =>
        \A c \in Classes : built[c] <= 1 /\ Cardinality(waitedOn[c]) <= 1

-----------------------------------------------------------------------------
(* Claims about the reconciliation engine *)

\* The latest handler was a Read whose request was answered with a
\* non-empty errors array
ReadGotErrors ==
    /\ lastOp = "Read"
    /\ lastReqs # <<>>
    /\ lastAns.kind = "ok"
    /\ lastAns.errors # <<>>

SomeMessageMeansDeleted ==
    \E i \in 1..Len(lastAns.errors) : messageMeansDeleted(lastAns.errors[i])

\* C6: a Read that keeps the resource writes to the state bus the
\* mutation_variables it started with, whatever the remote response was
C6_ReadKeepsMutationVariables ==
    (lastOp = "Read" /\ lastOk /\ state.k = "data")
        => state.MutationVariables = before.MutationVariables

\* C7: when the response to Read carries a GraphQL error whose message
\* indicates deletion, Read succeeds, the identity is cleared, ComputedValues
\* is emptied and the resource is removed from the state bus
C7_DeletionErrorRemovesResource ==
    (ReadGotErrors /\ SomeMessageMeansDeleted)
        => /\ lastOk
           /\ state = Absent
           /\ lastData.Id = NullAttr
           /\ lastData.ComputedValues = MapAttr(NoStrings)

C7_ConnectorWasDeleted ==
    /\ lastOp = "Read"
    /\ lastReqs # <<>>
    /\ lastAns = ErrorsAnswer(<< <<"Connector", "was", "deleted">> >>)
    /\ before.Id.k = "str"
    /\ before.ComputedValues.k = "map"
    /\ DOMAIN before.ComputedValues.v # {}
    /\ lastOk
    /\ state = Absent

\* C8: with several GraphQL errors Read treats the resource as deleted only
\* if every message indicates deletion; otherwise it returns an error and
\* keeps the resource as it was
C8_DeletedOnlyIfAllMatch ==
    ReadGotErrors
        => IF \A i \in 1..Len(lastAns.errors) : messageMeansDeleted(lastAns.errors[i])
           THEN lastOk /\ state = Absent
           ELSE ~lastOk /\ state = before

\* C8 as the code has it: Read treats the resource as deleted as soon as one
\* message indicates deletion (identity cleared, removed from the state bus);
\* it returns an error and keeps the resource only if no message does
C8_DeletedIfAnyMatches ==
    ReadGotErrors
        => IF SomeMessageMeansDeleted
           THEN lastOk /\ state = Absent /\ lastData.Id = NullAttr
           ELSE ~lastOk /\ state = before /\ state.k = "data"

C8_MixedErrorsDeleted ==
    /\ ReadGotErrors
    /\ Len(lastAns.errors) = 2
    /\ \E i \in 1..2 : messageMeansDeleted(lastAns.errors[i])
    /\ \E i \in 1..2 : ~messageMeansDeleted(lastAns.errors[i])
    /\ before.Id.k = "str"
    /\ lastOk
    /\ state = Absent

\* The id the three places yield for a model, "" if none does: input.id of
\* the delete variables, the id entry of ComputedValues, the stored identity
FirstIdOf(d) ==
    LET dv == d.DeleteMutationVariables
        a  == IF Known(dv) /\ gjsonGet(dv.v, <<"input", "id">>).exists
                 /\ gjsonGet(dv.v, <<"input", "id">>).val.t = "str"
              THEN gjsonGet(dv.v, <<"input", "id">>).val.v ELSE ""
        b  == IF Known(d.ComputedValues) /\ Has(d.ComputedValues.v, "id")
              THEN d.ComputedValues.v["id"] ELSE ""
        c  == IF Known(d.Id) THEN d.Id.v ELSE ""
    IN  IF a # "" THEN a ELSE IF b # "" THEN b ELSE c

\* C9: Delete sends one delete request, and it carries at input.id the first
\* non-empty id of: the delete variables, ComputedValues, the stored identity
C9_DeleteSendsFirstId ==
    (lastOp = "Delete" /\ FirstIdOf(before) # "")
        => /\ Len(lastReqs) = 1
           /\ lastReqs[1].op = "delete"
           /\ gjsonGet(lastReqs[1].vars, <<"input", "id">>)
                 = [exists |-> TRUE, val |-> JStr(FirstIdOf(before))]

\* C10: when none of the three places yields an id, Delete ends with an
\* error and sends no request
C10_NoIdIsAnError ==
    (lastOp = "Delete" /\ FirstIdOf(before) = "")
        => ~lastOk /\ lastReqs = <<>>

-----------------------------------------------------------------------------
(* Claims about Update *)

\* The latest handler was an Update on the path without force_replace whose
\* first request, the verifying read, found the resource
VerifiedPatchUpdate ==
    /\ lastOp = "Update"
    /\ cfg.ForceReplace.k # "bool"
    /\ cfg.EnableRemoteStateVerification.k # "bool"
    /\ Len(lastAnswers) >= 1
    /\ lastAnswers[1].kind = "ok"
    /\ lastAnswers[1].errors = <<>>
    /\ Has(respData(lastAnswers[1]), "todo")
    /\ IsObj(respData(lastAnswers[1])["todo"])

\* The fields the configuration asks for
DesiredFields ==
    LET m == cfg.MutationVariables.v.v IN
    IF Has(m, "input") /\ IsObj(m["input"]) THEN m["input"].v ELSE m

\* No field the configuration asks for differs from what the verifying read found
NoFieldDiffers ==
    \A k \in DOMAIN DesiredFields :
        /\ Has(respData(lastAnswers[1])["todo"].v, k)
        /\ respData(lastAnswers[1])["todo"].v[k] = DesiredFields[k]

\* The verifying read yielded a computed id
ComputedIdFound ==
    /\ Has(cfg.ComputeMutationKeys.v, "id")
    /\ Has(respData(lastAnswers[1])["todo"].v, "id")
    /\ respData(lastAnswers[1])["todo"].v["id"] # JStr("")

UpdateRequests == { i \in 1..Len(lastReqs) : lastReqs[i].op = "update" }

FirstUpdateRequest ==
    lastReqs[CHOOSE i \in UpdateRequests : \A j \in UpdateRequests : i <= j]

\* The variables are {input: {id, patch}}, the patch being the desired fields that
\* differ from what the verifying read found
IsPatchOfChangedFields(sentVars) ==
    /\ DOMAIN sentVars.v = {"input"}
    /\ IsObj(sentVars.v["input"])
    /\ DOMAIN sentVars.v["input"].v = {"id", "patch"}
    /\ VerifiedPatchUpdate
          => \E cur \in extractCurrentState(lastAnswers[1].body.v) :
                sentVars.v["input"].v["patch"] = JObj(findChangedFields(DesiredFields, cur))

\* C12: the variables Update sends are the full desired variables when
\* wrap_update_in_patch is disabled, and {input: {id, patch: changedFields}}
\* when it is enabled
C12_WrapFlagShapesPayload ==
    (lastOp = "Update" /\ cfg.ForceReplace.k # "bool" /\ UpdateRequests # {})
        => IF cfg.WrapUpdateInPatch = BoolAttr(TRUE)
           THEN IsPatchOfChangedFields(FirstUpdateRequest.vars)
           ELSE ToString(FirstUpdateRequest.vars) = ToString(cfg.MutationVariables.v)

\* The server refused the request it answered with ans
Refused(ans) == ans.kind = "fail" \/ ans.errors # <<>>

\* C13: with force_replace set, Update sends the delete mutation and then the
\* create mutation and never the update mutation; if the delete fails, the
\* create mutation is not sent
C13_ForceReplaceDeletesThenCreates ==
    (lastOp = "Update" /\ cfg.ForceReplace = BoolAttr(TRUE))
        => /\ UpdateRequests = {}
           /\ Len(lastReqs) >= 1
           /\ lastReqs[1].op = "delete"
           /\ IF Refused(lastAnswers[1])
              THEN ~lastOk /\ Len(lastReqs) = 1
              ELSE Len(lastReqs) >= 2 /\ lastReqs[2].op = "create"

\* The first update request of the latest Update was rejected with an error
\* that holds 422 or "unknown field"
FirstUpdateRejected ==
    /\ lastOp = "Update"
    /\ UpdateRequests # {}
    /\ LET i == CHOOSE n \in UpdateRequests : \A j \in UpdateRequests : n <= j IN
       /\ lastAnswers[i].kind = "fail"
       /\ \/ Contains(lastAnswers[i].detail, <<"422">>)
          \/ Contains(lastAnswers[i].detail, <<"unknown", "field">>)

\* C14: when the patch-shaped update request is rejected (422 or "unknown
\* field"), Update sends exactly one more update request, carrying the full
\* desired variables unwrapped; if that one fails too, Update ends with its
\* error and sends nothing further
C14_RejectedPatchFallsBackOnce ==
    FirstUpdateRejected
        => LET i == CHOOSE n \in UpdateRequests : \A j \in UpdateRequests : n <= j IN
           /\ UpdateRequests = {i, i + 1}
           /\ lastReqs[i + 1] = Request("update", cfg.MutationVariables.v)
           /\ lastAnswers[i + 1].kind = "fail"
                 => /\ ~lastOk
                    /\ Len(lastReqs) = i + 1
                    /\ state = before

\* A patch {input: {id, patch}} was rejected with 422, the full variables
\* were sent and failed as well
C14_FallbackFailedToo ==
    /\ FirstUpdateRejected
    /\ Has(FirstUpdateRequest.vars.v, "input")
    /\ Has(FirstUpdateRequest.vars.v["input"].v, "patch")
    /\ Len(lastReqs) = 3
    /\ Contains(lastAnswers[2].detail, <<"422">>)
    /\ lastAnswers[3].kind = "fail"
    /\ ~lastOk

\* A 200 response whose errors array is not empty
HasGraphQLErrors(ans) == ans.kind = "ok" /\ ans.errors # <<>>

\* The latest handler sent a mutation that the server answered with errors
MutationGotErrors ==
    \/ /\ lastOp = "Create"
       /\ \E i \in 1..Len(lastAnswers) : HasGraphQLErrors(lastAnswers[i])
    \/ /\ lastOp = "Delete"
       /\ lastReqs # <<>>
       /\ HasGraphQLErrors(lastAns)
    \/ /\ lastOp = "Update"
       /\ \E i \in 1..Len(lastReqs) :
             /\ lastReqs[i].op \in {"create", "update", "delete"}
             /\ HasGraphQLErrors(lastAnswers[i])

\* C15: for each of Create, Update and Delete, a 200 response whose errors
\* array is not empty makes the operation end with an error (one that carries
\* every message of the array)
C15_GraphQLErrorsFailTheOperation ==
    MutationGotErrors => ~lastOk /\ state = before

-----------------------------------------------------------------------------
(* Claims about extraction, transport failures and the identity *)

\* The response holds the resource: a todo object under data, and no errors
ResourceInResponse(ans) ==
    /\ ans.kind = "ok"
    /\ ans.errors = <<>>
    /\ Has(respData(ans), "todo")
    /\ IsObj(respData(ans)["todo"])

\* A configured key path resolves in none of the four locations of the
\* response to the latest Read, or of the one response to the latest Create
ExtractionFailed ==
    \/ /\ lastOp = "Read"
       /\ ResourceInResponse(lastAns)
       /\ ~computeMutationVariableKeys(keysToUse(before), lastAns.body).ok
    \/ /\ lastOp = "Create"
       /\ Len(lastAnswers) = 1
       /\ ResourceInResponse(lastAnswers[1])
       /\ ~computeMutationVariableKeys(cfg.ComputeMutationKeys.v,
               combinedResponse(<< JObj(respData(lastAnswers[1])) >>)).ok

\* C16: when a configured key path resolves in none of the four fallback
\* locations of a response, the operation that asked for the extraction
\* (Create or Read) ends with an error (one that carries the paths tried);
\* the failure is never turned into a successful outcome
C16_ExtractionFailureIsAnError ==
    ExtractionFailed => ~lastOk /\ state = before

\* The latest handler was a Read whose request met a transport failure
ReadFailedInTransport ==
    /\ lastOp = "Read"
    /\ lastReqs # <<>>
    /\ lastAns.kind = "fail"

\* The text of the transport failure holds a phrase that speaks of a deletion
TransportSaysDeleted ==
    LET m == ToLower(lastAns.detail) IN
    \/ Contains(m, <<"404">>)
    \/ Contains(m, <<"not", "found">>)
    \/ Contains(m, <<"deleted">>)
    \/ Contains(m, <<"does", "not", "exist">>)
    \/ Contains(m, <<"cannot", "return", "null", "for", "non-nullable", "field">>)

\* The latest Read removed the resource without an error
ReadRemovedResource ==
    /\ lastOp = "Read"
    /\ lastReqs # <<>>
    /\ lastOk
    /\ state = Absent

\* The response to the latest Read holds the resource and every configured
\* key resolves in it, not all of them to the empty string
ExtractionFoundValues ==
    /\ ResourceInResponse(lastAns)
    /\ LET ext == computeMutationVariableKeys(keysToUse(before), lastAns.body) IN
       /\ ext.ok
       /\ \E k \in DOMAIN ext.vals : ext.vals[k] # ""

\* C17: a transport failure of the Read request makes Read end with an error
\* and keep the identity and ComputedValues; Read treats the resource as
\* deleted only on a null or empty data object, on deletion-indicating
\* GraphQL errors, or on an empty extraction
C17_TransportFailureKeepsResource ==
    /\ ReadFailedInTransport
          => /\ ~lastOk
             /\ state = before
             /\ state.k = "data"
    /\ ReadRemovedResource
          => /\ lastAns.kind = "ok"
             /\ lastAns.errors # <<>> => SomeMessageMeansDeleted
             /\ lastAns.errors = <<>>
                   => \/ ~ResourceInResponse(lastAns)
                      \/ LET ext == computeMutationVariableKeys(keysToUse(before),
                                                                lastAns.body) IN
                         ext.ok /\ \A k \in DOMAIN ext.vals : ext.vals[k] = ""

\* C17, as the code has it: a transport failure whose text speaks of a
\* deletion (404, not found, deleted, does not exist) makes Read remove the
\* resource without an error; any other transport failure makes Read end
\* with an error and keep the resource as it was.  Read never removes a
\* resource on GraphQL errors none of which indicates deletion, nor on a
\* response in which every configured key resolves to some non-empty value
C17_TransportFailureKeepsUnlessDeleted ==
    /\ ReadFailedInTransport
          => IF TransportSaysDeleted
             THEN lastOk /\ state = Absent /\ lastData.Id = NullAttr
             ELSE ~lastOk /\ state = before /\ state.k = "data"
    /\ ReadRemovedResource
          => /\ lastAns.errors # <<>> => SomeMessageMeansDeleted
             /\ ~ExtractionFoundValues

\* A Read answered with HTTP 404 removed a resource that had an identity
C17_NotFoundStatusRemoved ==
    /\ ReadFailedInTransport
    /\ Contains(lastAns.detail, <<"HTTP", "404">>)
    /\ before.Id.k = "str"
    /\ lastOk
    /\ state = Absent

\* C18: if Create, Read or Update ends with an error, nothing is written to
\* the state bus: the state after the failed operation is the state before it
C18_FailedOperationWritesNothing ==
    (lastOp \in {"Create", "Read", "Update"} /\ ~lastOk) => state = before

\* An Update ended with an error after it had sent requests and changed its
\* model, and the state bus still holds what it held before
C18_FailedUpdateLeftState ==
    /\ lastOp = "Update"
    /\ ~lastOk
    /\ Len(lastReqs) >= 2
    /\ \E i \in 1..Len(lastReqs) : lastReqs[i].op = "update"
    /\ before.k = "data"
    /\ lastData # before
    /\ state = before

\* C19: once a resource has an identity, every later Read that does not find
\* the resource deleted leaves that identity unchanged, whatever the response
\* contains
C19_ReadKeepsIdentity ==
    (lastOp = "Read" /\ before.k = "data" /\ Known(before.Id) /\ state.k = "data")
        => state.Id = before.Id

\* The hashes of the responses the latest Create received: of its combined
\* create response and of the response to its read
CreateResponseHashes ==
    { hashText(c.bytes) : c \in executeCreateHook(PlanOf(cfg), lastAnswers) }
    \cup { hashText(lastAns.body) }

\* C20: after a successful Create the persisted identity is the id entry of
\* ComputedValues when there is one, and otherwise the hash of the response
\* bytes; it is never null
C20_CreateIdentityFromComputedValues ==
    (lastOp = "Create" /\ lastOk)
        => /\ state.k = "data"
           /\ state.Id.k = "str"
           /\ IF Known(state.ComputedValues) /\ Has(state.ComputedValues.v, "id")
              THEN state.Id.v = state.ComputedValues.v["id"]
              ELSE state.Id.v \in CreateResponseHashes

-----------------------------------------------------------------------------
(* executePaginatedQueryFramework taken alone: the server's answers to the   *)
(* requests of one call are fixed beforehand, the call consumes them in turn *)

MaxPages == 3

\* A connection whose pageInfo holds the given fields
ConnectionWith(info) ==
    DataAnswer(JObj([data |-> JObj([todos |->
        JObj([edges |-> JArr(<<>>), pageInfo |-> JObj(info)])])]))

\* What the server can answer to one request of the loop
PageAnswers ==
    { Connection(TRUE, "c1"),
      Connection(TRUE, "c2"),
      Connection(TRUE, ""),
      Connection(FALSE, "c1"),
      Connection(FALSE, ""),
      ConnectionWith([endCursor |-> S("c1")]),
      ConnectionWith([hasNextPage |-> S("true"), endCursor |-> S("c1")]),
      ConnectionWith([hasNextPage |-> JBool(TRUE)]),
      ConnectionWith([hasNextPage |-> JBool(TRUE), endCursor |-> JNum(1)]),
      DataAnswer(JObj([data |-> Todo("abc", "a")])),
      DataAnswer(JObj([data |-> JNull])),
      ErrorsAnswer(<< <<"internal", "error">> >>),
      FailAnswer(<<"received", "HTTP", "500", ":", "internal", "error">>) }

PageAnswerSeqs == UNION { [1..n -> PageAnswers] : n \in 1..MaxPages }

InitPaginate ==
    /\ called = "none"
    /\ args \in PageAnswerSeqs
    /\ result = <<>>
    /\ InitExec
    /\ RateAtRest
    /\ NoResource

\* The variables the caller hands to the loop
PageVariables ==
    { NoFields,
      [first |-> JNum(10)],
      [after |-> S("c0"), filter |-> JObj([status |-> S("active")])] }

\* The run together with the caller's variables as they were handed in and as
\* they are after the call (prepareQueryVariables writes to its copy only)
PagedWith(run, inputVariables) ==
    [diags |-> run.diags, all |-> run.all, reqs |-> run.reqs, left |-> run.left,
     variables |-> inputVariables, caller |-> inputVariables]

\* One call of executePaginatedQueryFramework, answered with args in turn
CallPaginate ==
    /\ called = "none"
    /\ called' = "executePaginatedQueryFramework"
    /\ \E inputVariables \in PageVariables :
          \E run \in paginate("query", inputVariables, args, "", <<>>, <<>>) :
             result' = PagedWith(run, inputVariables)
    /\ UNCHANGED <<args, execVars, rateVars, resourceVars>>

NextPaginate == CallPaginate

SpecPaginate == InitPaginate /\ [][NextPaginate]_vars

\* The pageInfo of the connection in a response, when there is one
HasPageInfo(ans) ==
    /\ ans.kind = "ok"
    /\ ans.errors = <<>>
    /\ Has(respData(ans), "todos")
PageInfoOf(ans) == respData(ans)["todos"].v["pageInfo"].v

\* The response is a page after which the loop may ask for the next one
ReportsNextPage(ans) ==
    /\ HasPageInfo(ans)
    /\ Has(PageInfoOf(ans), "hasNextPage")
    /\ PageInfoOf(ans)["hasNextPage"] = JBool(TRUE)
    /\ Has(PageInfoOf(ans), "endCursor")
    /\ PageInfoOf(ans)["endCursor"].t = "str"
    /\ PageInfoOf(ans)["endCursor"].v # ""

Paginated == called = "executePaginatedQueryFramework"

\* C21: the pagination loop sends no further request after a page whose
\* hasNextPage is false, absent or not a boolean, or whose endCursor is empty
\* or absent; for N pages ending with hasNextPage = false it makes at most
\* N + 1 requests
C21_LoopStopsAtLastPage ==
    Paginated
        => /\ \A i \in 1..Len(args) :
                ~ReportsNextPage(args[i]) => Len(result.reqs) <= i
           /\ \A n \in 1..Len(args) :
                (HasPageInfo(args[n]) /\ Has(PageInfoOf(args[n]), "hasNextPage")
                   /\ PageInfoOf(args[n])["hasNextPage"] = JBool(FALSE))
                    => Len(result.reqs) <= n + 1

\* Two pages were fetched, the second one said hasNextPage = true with an
\* empty endCursor, and a third answer was left unasked
C21_StoppedOnEmptyCursor ==
    /\ Paginated
    /\ Len(args) = 3
    /\ ReportsNextPage(args[1])
    /\ args[2] = Connection(TRUE, "")
    /\ Len(result.reqs) = 2
    /\ Len(result.all) = 2
    /\ result.diags = <<>>

-----------------------------------------------------------------------------
(* computeMutationVariableKeys taken alone *)

MaxKeys == 2

IdPath == <<"todo", "id">>

\* The value each of the four locations holds for the path todo.id
LocValue == <<"v1", "v2", "v3", "v4">>

\* A response that holds todo.id at the locations of locs and nowhere else
LocDoc(locs) ==
    LET at(i)  == JObj([todo |-> JObj([id |-> S(LocValue[i])])])
        inData == IF 1 \in locs /\ 2 \in locs
                  THEN [todo |-> at(1).v["todo"], paginatedData |-> JArr(<< at(2) >>)]
                  ELSE IF 1 \in locs THEN at(1).v
                  ELSE IF 2 \in locs THEN [paginatedData |-> JArr(<< at(2) >>)]
                  ELSE NoFields
        top    == IF 3 \in locs /\ 4 \in locs
                  THEN [todo |-> at(3).v["todo"], paginatedData |-> JArr(<< at(4) >>)]
                  ELSE IF 3 \in locs THEN at(3).v
                  ELSE IF 4 \in locs THEN [paginatedData |-> JArr(<< at(4) >>)]
                  ELSE NoFields
    IN  IF locs \cap {1, 2} # {} THEN JObj(Put(top, "data", JObj(inData))) ELSE JObj(top)

\* A response with a list of two elements
ListDoc ==
    JObj([data |-> JObj([todos |-> JArr(<< JObj([id |-> S("a")]),
                                          JObj([id |-> S("b")]) >>)])])

KeyDocs ==
    { LocDoc(locs) : locs \in SUBSET (1..4) }
    \cup { ListDoc,
           JObj([data |-> JObj([todo |-> JObj([id |-> JNull, name |-> JBool(FALSE)])])]),
           JObj([data |-> JObj([todo |-> JObj([id |-> JNum(1), name |-> S("a")]),
                                todos |-> JArr(<< S("x") >>)])]) }

\* The entries a key map is made of
KeyEntries ==
    [id_key |-> IdPath,
     second |-> <<"todos", "1", "id">>,
     fourth |-> <<"todos", "3", "id">>,
     name   |-> <<"todo", "name">>]

KeyMapChoices ==
    { [k \in ks |-> KeyEntries[k]] :
        ks \in { c \in SUBSET (DOMAIN KeyEntries) : Cardinality(c) \in 1..MaxKeys } }

InitKeys ==
    /\ called = "none"
    /\ args \in [keys : KeyMapChoices, doc : KeyDocs]
    /\ result = <<>>
    /\ InitExec
    /\ RateAtRest
    /\ NoResource

\* One call of computeMutationVariableKeys
CallComputeKeys ==
    /\ called = "none"
    /\ called' = "computeMutationVariableKeys"
    /\ \E r \in { computeMutationVariableKeys(args.keys, args.doc) } :
          IF r.ok
          THEN result' = [ok |-> TRUE, vals |-> r.vals, error |-> <<>>]
          ELSE \E e \in computeKeysErrors(args.keys, args.doc) :
                  result' = [ok |-> FALSE, vals |-> r.vals, error |-> << e >>]
    /\ UNCHANGED <<args, execVars, rateVars, resourceVars>>

NextKeys == CallComputeKeys

SpecKeys == InitKeys /\ [][NextKeys]_vars

KeysComputed == called = "computeMutationVariableKeys"

\* The four locations of a path, in the order of the statement
FourLocations(path) ==
    << <<"data">> \o path,
       <<"data", "paginatedData", "0">> \o path,
       path,
       <<"paginatedData", "0">> \o path >>

\* The locations of a path that exist in a response
Existing(doc, path) ==
    { i \in 1..4 : gjsonGet(doc, FourLocations(path)[i]).exists }

Least(ns) == CHOOSE n \in ns : \A m \in ns : n <= m

\* C22: for each key, extract resolves its path at data.<path>, then
\* data.paginatedData.0.<path>, then <path>, then paginatedData.0.<path>, and
\* returns the value found at the first of these locations that exists;
\* numeric path segments index arrays (todos.1.id is the id of the second
\* element)
C22_FirstLocationWins ==
    (KeysComputed /\ result.ok)
        => /\ DOMAIN result.vals = DOMAIN args.keys
           /\ \A k \in DOMAIN args.keys :
                /\ Existing(args.doc, args.keys[k]) # {}
                /\ result.vals[k] =
                     resultString(gjsonGet(args.doc,
                        FourLocations(args.keys[k])[Least(Existing(args.doc, args.keys[k]))]).val)
           /\ \A locs \in SUBSET (1..4) :
                (locs # {} /\ args.doc = LocDoc(locs) /\ Has(args.keys, "id_key"))
                    => result.vals["id_key"] = LocValue[Least(locs)]
           /\ (args.doc = ListDoc /\ Has(args.keys, "second"))
                    => result.vals["second"] = "b"

\* The path was found at the second, third and fourth location, and the
\* value of the second was returned
C22_SecondLocationWon ==
    /\ KeysComputed
    /\ args.doc = LocDoc({2, 3, 4})
    /\ args.keys = [id_key |-> IdPath]
    /\ result.ok
    /\ result.vals["id_key"] = "v2"

\* C23: if any one key resolves in none of the four locations, extract
\* returns an error and no value map, also for the keys that did resolve; the
\* error names the four paths tried and the top-level keys of the response
C23_OneMissingKeyFailsAll ==
    (KeysComputed /\ \E k \in DOMAIN args.keys : Existing(args.doc, args.keys[k]) = {})
        => /\ ~result.ok
           /\ DOMAIN result.vals = {}
           /\ Len(result.error) = 1
           /\ \E k \in DOMAIN args.keys :
                /\ Existing(args.doc, args.keys[k]) = {}
                /\ result.error[1].path = args.keys[k]
                /\ result.error[1].tried = FourLocations(args.keys[k])
           /\ result.error[1].available = DOMAIN args.doc.v

\* todos.3.id was asked of a list of two elements together with a key that
\* resolves: the call failed and the error lists the top-level key data
C23_FourthOfTwoFailed ==
    /\ KeysComputed
    /\ args.doc = ListDoc
    /\ args.keys = [second |-> <<"todos", "1", "id">>, fourth |-> <<"todos", "3", "id">>]
    /\ ~result.ok
    /\ result.error[1].path = <<"todos", "3", "id">>
    /\ result.error[1].available = {"data"}

-----------------------------------------------------------------------------
(* findChangedFields and ValuesEqual taken alone *)

\* JSON values that are compared
ComparedScalars ==
    { JNull, S("a"), S("b"), S("__secret_content__"), JBool(TRUE), JNum(1) }

ComparedArrays ==
    { JArr(<<>>), JArr(<< S("a"), S("b") >>), JArr(<< S("b"), S("a") >>),
      JArr(<< JNull >>) }

ComparedObjects ==
    { JObj(NoFields),
      JObj([name |-> S("a")]),
      JObj([name |-> S("b")]),
      JObj([name |-> S("a"), extra |-> S("y")]),
      JObj([name |-> JNull]),
      JObj([name |-> S("__secret_content__")]),
      JObj([type |-> S("x")]),
      JObj([type |-> S("y"), name |-> S("a")]),
      JObj([patch |-> JObj([name |-> S("a")])]),
      JObj([patch |-> JObj([name |-> S("b")]), name |-> S("a")]),
      JObj([patch |-> S("x")]),
      JObj([tags |-> JArr(<< S("a"), S("b") >>)]),
      JObj([tags |-> JArr(<< S("b"), S("a") >>)]),
      JObj([config |-> JObj([name |-> JNull])]) }

ComparedValues == ComparedScalars \cup ComparedArrays \cup ComparedObjects

InitCompare ==
    /\ called = "none"
    /\ args \in [desired : ComparedValues, current : ComparedValues]
    /\ result = <<>>
    /\ InitExec
    /\ RateAtRest
    /\ NoResource

\* One call of findChangedFields, whose arguments are maps
CallFindChangedFields ==
    /\ called = "none"
    /\ IsObj(args.desired)
    /\ IsObj(args.current)
    /\ called' = "findChangedFields"
    /\ result' = findChangedFields(args.desired.v, args.current.v)
    /\ UNCHANGED <<args, execVars, rateVars, resourceVars>>

\* One call of ValuesEqual
CallValuesEqual ==
    /\ called = "none"
    /\ called' = "ValuesEqual"
    /\ result' = ValuesEqual(args.desired, args.current)
    /\ UNCHANGED <<args, execVars, rateVars, resourceVars>>

NextCompare ==
    \/ CallFindChangedFields
    \/ CallValuesEqual

SpecCompare == InitCompare /\ [][NextCompare]_vars

\* The keys of a desired map that are not excluded and whose value is absent
\* from the current map or not equal to the value there
Differing(desired, current) ==
    { k \in DOMAIN desired :
        /\ k # "type"
        /\ (~Has(current, k) \/ ~ValuesEqual(desired[k], current[k])) }

HoldsPatch(x) == Has(x.v, "patch") /\ IsObj(x.v["patch"])

\* C24: diff(desired, current) contains exactly the keys of desired that are
\* not on the exclusion list and whose value is absent from current or not
\* equal to the value in current, each with its desired value; a key that is
\* not a key of desired is never in the result
C24_DiffIsOverDesiredKeys ==
    called = "findChangedFields"
        => /\ DOMAIN result = Differing(args.desired.v, args.current.v)
           /\ \A k \in DOMAIN result : result[k] = args.desired.v[k]
           /\ DOMAIN result \subseteq DOMAIN args.desired.v

\* C24, as the code has it: when desired holds an object under the key patch,
\* the fields of that object are the ones compared and reported; otherwise
\* the fields of desired are
C24_DiffIsOverDesiredOrPatchKeys ==
    called = "findChangedFields"
        => LET fields == IF HoldsPatch(args.desired)
                         THEN args.desired.v["patch"].v ELSE args.desired.v
           IN  /\ DOMAIN result = Differing(fields, args.current.v)
               /\ \A k \in DOMAIN result : result[k] = fields[k]

\* The desired map holds a patch whose field differs from the current map:
\* the field of the patch is reported, the field of the map itself is not
C24_PatchFieldReported ==
    /\ called = "findChangedFields"
    /\ args.desired = JObj([patch |-> JObj([name |-> S("b")]), name |-> S("a")])
    /\ args.current = JObj([name |-> S("a"), extra |-> S("y")])
    /\ result = [name |-> S("b")]

\* C25: for every JSON object x, diff(x, x) is the empty map, and equal(v, v)
\* is true for every JSON value v
C25_DiffAndEqualAreReflexive ==
    /\ (called = "findChangedFields" /\ args.desired = args.current)
          => DOMAIN result = {}
    /\ (called = "ValuesEqual" /\ args.desired = args.current)
          => result = TRUE

\* C25, as the code has it: diff(x, x) is the empty map for every JSON object
\* x that holds no object under the key patch, and equal(v, v) is true for
\* every JSON value v
C25_ReflexiveWithoutPatch ==
    /\ (called = "findChangedFields" /\ args.desired = args.current
          /\ ~HoldsPatch(args.desired))
          => DOMAIN result = {}
    /\ (called = "ValuesEqual" /\ args.desired = args.current)
          => result = TRUE

\* A map with several fields, one of them excluded, was compared with itself
C25_MapComparedWithItself ==
    /\ called = "findChangedFields"
    /\ args.desired = JObj([type |-> S("y"), name |-> S("a")])
    /\ args.current = args.desired
    /\ DOMAIN result = {}

-----------------------------------------------------------------------------
(* hash and hashCodeString (graphql/keys.go) taken alone.  A 32-bit word is *)
(* its two 16-bit halves; a Go int is its sign and its magnitude, a word,    *)
(* in an int of 32 or of 64 bits.                                            *)

MaxByte == 127
MaxCalls == 2

Half == 65536

Word(hi, lo) == [hi |-> hi, lo |-> lo]

RECURSIVE XorBits(_, _)
XorBits(a, b) ==
    IF a = 0 THEN b
    ELSE IF b = 0 THEN a
    ELSE (((a % 2) + (b % 2)) % 2) + 2 * XorBits(a \div 2, b \div 2)

XorWord(x, y) == Word(XorBits(x.hi, y.hi), XorBits(x.lo, y.lo))

ShiftRight1(x) == Word(x.hi \div 2, (x.lo \div 2) + (x.hi % 2) * 32768)

\* crc32.IEEE, reflected: 0xEDB88320
IEEEPoly == Word(60856, 33568)

AllOnes == Word(65535, 65535)

\* One shift of a word by a bit, with the polynomial when a one falls out
crcStep(crc) ==
    XorWord(ShiftRight1(crc), IF crc.lo % 2 = 1 THEN IEEEPoly ELSE Word(0, 0))

RECURSIVE crcShift(_, _)
crcShift(crc, n) == IF n = 0 THEN crc ELSE crcShift(crcStep(crc), n - 1)

\* crc32.IEEETable: the word each byte costs
ieeeTable == [b \in 0..255 |-> crcShift(Word(0, b), 8)]

ShiftRight8(x) == Word(x.hi \div 256, (x.lo \div 256) + (x.hi % 256) * 256)

\* crc32 update, a byte at a time
RECURSIVE crcUpdate(_, _)
crcUpdate(crc, bytes) ==
    IF bytes = <<>> THEN crc
    ELSE crcUpdate(XorWord(ieeeTable[XorBits(crc.lo % 256, Head(bytes))],
                           ShiftRight8(crc)),
                   Tail(bytes))

\* crc32.ChecksumIEEE
ChecksumIEEE(bytes) == XorWord(crcUpdate(AllOnes, bytes), AllOnes)

IntOf(neg, mag) == [neg |-> neg, mag |-> mag]

\* int(u) for a uint32 u, in an int of the given width
toInt(u, width) ==
    IF width = 64 \/ u.hi < 32768 THEN IntOf(FALSE, u)
    ELSE IF u.lo = 0 THEN IntOf(TRUE, Word(Half - u.hi, 0))
    ELSE IntOf(TRUE, Word(Half - 1 - u.hi, Half - u.lo))

\* -v in an int of the given width: the minimum integer is its own negation
negate(v, width) ==
    IF v.mag = Word(0, 0) THEN v
    ELSE IF width = 32 /\ v.neg /\ v.mag = Word(32768, 0) THEN v
    ELSE IntOf(~v.neg, v.mag)

\* The value of the conversion is returned as it is
hashUnfoldedMutant(bytes, width) == toInt(ChecksumIEEE(bytes), width)

hashCodeString(bytes, width) ==
    LET v == toInt(ChecksumIEEE(bytes), width) IN
    IF ~v.neg THEN v
    ELSE IF ~negate(v, width).neg THEN negate(v, width)
    ELSE IntOf(FALSE, Word(0, 0))

\* The bytes whose CRC32 is 0x80000000
MinIntBytes == <<78, 133, 236, 54>>

HashedBytes ==
    { <<b>> : b \in 0..MaxByte } \cup { <<>>, <<97, 98, 99>>, MinIntBytes }

InitHash ==
    /\ called = "none"
    /\ args \in [bytes : HashedBytes, width : {32, 64}]
    /\ result = <<>>
    /\ InitExec
    /\ RateAtRest
    /\ NoResource

\* One more call of hash on the same bytes
CallHash ==
    /\ Len(result) < MaxCalls
    /\ called' = "hash"
    /\ result' = Append(result, hashCodeString(args.bytes, args.width))
    /\ UNCHANGED <<args, execVars, rateVars, resourceVars>>

NextHash == CallHash

SpecHash == InitHash /\ [][NextHash]_vars

\* C26: for every byte sequence, hash returns the same value on every call,
\* and that value is a non-negative integer, also when the CRC32 value taken
\* as a signed integer of the platform width is negative (the minimum integer
\* maps to zero)
C26_HashStableAndNonNegative ==
    called = "hash"
        => /\ \A i \in 1..Len(result) :
                /\ ~result[i].neg
                /\ result[i] = result[1]
           /\ (args.width = 32 /\ ChecksumIEEE(args.bytes) = Word(32768, 0))
                => result[1].mag = Word(0, 0)
           /\ (args.bytes = <<97, 98, 99>>) => result[1].mag = Word(13604, 16834)

\* The CRC32 of the bytes is 0x80000000, the minimum integer of a 32-bit
\* platform, and both calls returned zero
C26_MinIntHashedTwice ==
    /\ called = "hash"
    /\ args.bytes = MinIntBytes
    /\ args.width = 32
    /\ toInt(ChecksumIEEE(args.bytes), 32) = IntOf(TRUE, Word(32768, 0))
    /\ result = << IntOf(FALSE, Word(0, 0)), IntOf(FALSE, Word(0, 0)) >>

-----------------------------------------------------------------------------
(* Claims about the end of a call and about cancellation *)

\* C27: when every attempt of a call fails with a rate-limit error, the
\* executor returns the error of the last attempt; in every case a call ends
\* either with a response document and no error, or with an error, never
\* with an empty result and no error
C27_EndsWithResponseOrError ==
    pc = "done"
        => /\ ret # Nil
           /\ HasError(ret.diags) \/ ret.resp # Nil
           /\ RateLimitFailure(last) => (ret = last /\ sent = maxRetries + 1)

\* Every attempt was rate-limited, the last two with different errors, and
\* the call returned the error of the last one
C27_LastErrorReturned ==
    /\ pc = "done"
    /\ sent = maxRetries + 1
    /\ RateLimitFailure(prev)
    /\ RateLimitFailure(last)
    /\ prev # last
    /\ ret = last

\* C28: after the cancellation signal is raised, the executor starts no new
\* attempt and no new backoff wait, and the operation in flight ends with an
\* error
C28_CancellationStopsTheCall ==
    /\ lateAttempts = 0
    /\ (cancelled /\ pc = "done") => HasError(ret.diags)

-----------------------------------------------------------------------------
(* Claims about how often Create and Update send their mutation *)

CreateRequests == { i \in 1..Len(lastReqs) : lastReqs[i].op = "create" }

\* C29: one Create sends the create mutation exactly once, whatever the
\* response holds, also when it is a connection whose pageInfo reports a next
\* page with a cursor
C29_CreateMutationSentOnce ==
    (lastOp = "Create" /\ lastReqs # <<>>) => Cardinality(CreateRequests) = 1

\* C30: on the path without force_replace, whenever a desired field differs
\* from the remote state the verifying read found, Update sends the update
\* mutation, whatever the shape of mutation_variables and whether or not the
\* computed values hold an id
C30_DifferenceSendsUpdate ==
    (VerifiedPatchUpdate /\ ~NoFieldDiffers) => UpdateRequests # {}

-----------------------------------------------------------------------------
(* Claims about Delete, the extraction of the remote state and the keys *)

\* C31: Delete ends without an error only after the delete mutation was sent
\* and answered without a transport error and without GraphQL errors, also
\* for a resource with a stored identity and no computed values
C31_DeleteSucceedsOnlyAfterAnswer ==
    (lastOp = "Delete" /\ lastOk)
        => /\ Len(lastReqs) = 1
           /\ lastReqs[1].op = "delete"
           /\ lastAns.kind = "ok"
           /\ lastAns.errors = <<>>

-----------------------------------------------------------------------------
(* extractCurrentState, extractPaginatedData and the comparison of the      *)
(* desired fields with the extracted state, taken alone                      *)

Resource(id, name, status) ==
    JObj([id |-> S(id), name |-> S(name), status |-> S(status)])

PageOf(more, cursor) ==
    JObj([edges |-> JArr(<<>>),
          pageInfo |-> JObj([hasNextPage |-> JBool(more), endCursor |-> S(cursor)])])

\* Response documents handed to the extraction
ExtractedDocs ==
    { JObj([data |-> JObj([todo |-> Resource("abc", "a", "active")])]),
      JObj([data |-> JObj([todo |-> JObj([id |-> S("abc"), name |-> S("b"),
                                          createdAt |-> S("t1"),
                                          updatedAt |-> S("t2")])])]),
      JObj([data |-> JObj([todos |-> JObj([nodes |->
                JArr(<< Resource("abc", "a", "active"),
                        Resource("def", "b", "done") >>)])])]),
      JObj([data |-> JObj([first |-> JObj([nodes |-> JArr(<< JObj([name |-> S("a")]) >>)]),
                           second |-> JObj([nodes |-> JArr(<< JObj([name |-> S("b")]) >>)])])]),
      JObj([data |-> JObj([todos |-> JObj([nodes |-> JArr(<<>>)]),
                           todo |-> JObj([name |-> S("a")])])]),
      JObj([data |-> JObj([first |-> JObj([name |-> S("a")]),
                           second |-> JObj([name |-> S("b")])])]),
      JObj([data |-> JObj([first |-> JObj([name |-> S("a")]),
                           second |-> Resource("abc", "b", "active")])]),
      JObj([data |-> JObj([count |-> JNum(3), todo |-> JObj(NoFields)])]),
      JObj([data |-> JObj([todos |-> JObj([nodes |-> JArr(<< S("x") >>)]),
                           todo |-> JObj([name |-> S("a")])])]),
      JObj([data |-> JNull]),
      JObj([todo |-> Resource("abc", "a", "active")]),
      JObj([id |-> S("abc"), name |-> S("a")]),
      JObj([data |-> JObj([first |-> PageOf(TRUE, "c1"),
                           second |-> PageOf(FALSE, "")])]),
      JObj([data |-> JObj([todos |-> PageOf(TRUE, "c1")])]) }

\* The desired fields they are compared with
DesiredChoices ==
    { JObj([name |-> S("a")]),
      JObj([name |-> S("b")]),
      JObj([name |-> S("a"), status |-> S("active")]),
      JObj([id |-> S("abc"), name |-> S("a")]),
      JObj([name |-> S("a"), createdAt |-> S("t1")]) }

InitExtract ==
    /\ called = "none"
    /\ args \in [doc : ExtractedDocs, desired : DesiredChoices]
    /\ result = <<>>
    /\ InitExec
    /\ RateAtRest
    /\ NoResource

\* prepareUpdatePayload, lines 1384-1402: the current state is extracted from
\* the query response and the desired fields are compared with it
CallExtractCurrentState ==
    /\ called = "none"
    /\ called' = "extractCurrentState"
    /\ \E cur \in extractCurrentState(args.doc.v) :
          result' = [current |-> cur,
                     changedFields |-> findChangedFields(args.desired.v, cur)]
    /\ UNCHANGED <<args, execVars, rateVars, resourceVars>>

\* One call of extractPaginatedData with the data map of the response
CallExtractPaginatedData ==
    /\ called = "none"
    /\ Has(args.doc.v, "data")
    /\ IsObj(args.doc.v["data"])
    /\ called' = "extractPaginatedData"
    /\ result' \in extractPaginatedData(args.doc.v["data"].v)
    /\ UNCHANGED <<args, execVars, rateVars, resourceVars>>

NextExtract ==
    \/ CallExtractCurrentState
    \/ CallExtractPaginatedData

SpecExtract == InitExtract /\ [][NextExtract]_vars

ServerOnlyFields == {"id", "createdAt", "updatedAt", "status"}

\* C32: extractCurrentState removes id, createdAt, updatedAt and status from
\* the object it returns, and the comparison of the desired fields with the
\* extracted state never reports any of them
C32_ServerOnlyFieldsNeverCompared ==
    called = "extractCurrentState"
        => /\ DOMAIN result.current \cap ServerOnlyFields = {}
           /\ DOMAIN result.changedFields \cap ServerOnlyFields = {}

\* The value a path resolves to in the response of the call
Resolved(k) == lookupKeyPath(args.doc, args.keys[k])

IsScalar(x) == x.t \in {"str", "num", "bool"}

\* The string form of a scalar: 1 gives "1", false gives "false"
ScalarText(x) ==
    CASE x.t = "str"  -> x.v
      [] x.t = "num"  -> ToString(x.v)
      [] x.t = "bool" -> IF x.v THEN "true" ELSE "false"

\* C33: a resolved leaf that is a string, a number or a boolean is returned
\* in its string form; a resolved leaf of any other type (object, array,
\* null) makes the extraction fail
C33_ScalarOrFailure ==
    KeysComputed
        => \A k \in DOMAIN args.keys :
              Resolved(k).exists
                 => IF IsScalar(Resolved(k).val)
                    THEN result.ok => result.vals[k] = ScalarText(Resolved(k).val)
                    ELSE ~result.ok

-----------------------------------------------------------------------------
(* Claims about the variables and the result of a paginated execution *)

\* The data object the loop takes from an answered page
PageData(ans) ==
    IF Has(respData(ans), "todos") THEN respData(ans)["todos"] ELSE JObj(respData(ans))

\* The endCursor of an answered page
EndCursorOf(ans) == PageInfoOf(ans)["endCursor"].v

\* The pages that were answered with a data object, in request order
AnsweredPages ==
    SelectSeq(SubSeq(args, 1, Len(result.reqs)), LAMBDA a : ~dataIsNil(a))

\* C34: the first request carries the caller's variables with no cursor
\* added, every later request carries them with after set to the endCursor
\* of the page before it, the result lists the data objects of the pages in
\* request order, and the caller's variable map is not modified
C34_CursorAndOrder ==
    Paginated
        => /\ result.reqs[1].vars = JObj(result.variables)
           /\ \A i \in 2..Len(result.reqs) :
                 result.reqs[i].vars
                    = JObj(Put(result.variables, "after", S(EndCursorOf(args[i - 1]))))
           /\ result.diags = <<>>
                 => result.all = [i \in 1..Len(AnsweredPages) |-> PageData(AnsweredPages[i])]
           /\ result.caller = result.variables

\* Three pages were fetched for a caller whose variables hold an after entry
\* of their own: the second and third request carry the cursors c1 and c2
C34_ThreePagesFetched ==
    /\ Paginated
    /\ Has(result.variables, "after")
    /\ Len(result.reqs) = 3
    /\ Len(result.all) = 3
    /\ result.reqs[1].vars.v["after"] = S("c0")
    /\ result.reqs[2].vars.v["after"] = S("c1")
    /\ result.reqs[3].vars.v["after"] = S("c2")

-----------------------------------------------------------------------------
(* Claims about the sentinel of secret fields and about arrays of strings *)

SecretSentinel == S("__secret_content__")

EqualsCalled == called = "ValuesEqual"

\* C35: equal(desired, current) is true whenever current is the sentinel
\* string "__secret_content__", for every desired value, null included
C35_SecretEqualsEveryValue ==
    (EqualsCalled /\ args.current = SecretSentinel) => result = TRUE

\* C35, as the code has it: with the sentinel as current, equal is true for
\* every desired value that is not null, and false for null
C35_SecretEqualsEveryValueButNull ==
    (EqualsCalled /\ args.current = SecretSentinel)
        => (result <=> args.desired # JNull)

\* An object was compared with the sentinel and found equal
C35_ObjectEqualsSecret ==
    /\ EqualsCalled
    /\ args.current = SecretSentinel
    /\ args.desired = JObj([name |-> S("a")])
    /\ result = TRUE

IsStringArray(x) == x.t = "arr" /\ \A i \in 1..Len(x.v) : x.v[i].t = "str"

\* Two arrays of strings that hold the same strings, in whatever order
SameStrings(x, y) ==
    /\ IsStringArray(x)
    /\ IsStringArray(y)
    /\ sortStrings(x.v) = sortStrings(y.v)

\* C36: two arrays of strings that hold the same strings in a different order
\* are equal under equal(), so a reordering of a string array alone never
\* appears in diff
C36_StringArraysEqualInAnyOrder ==
    /\ (EqualsCalled /\ SameStrings(args.desired, args.current)) => result = TRUE
    /\ (called = "findChangedFields" /\ Has(args.desired.v, "tags")
           /\ Has(args.current.v, "tags")
           /\ SameStrings(args.desired.v["tags"], args.current.v["tags"]))
          => ~Has(result, "tags")

-----------------------------------------------------------------------------
(* Claims about the heuristic of extractCurrentState *)

Extracted == called = "extractCurrentState"

HasDataObject(doc) == Has(doc.v, "data") /\ IsObj(doc.v["data"])

\* The top-level values of a map that hold a non-empty nodes array whose
\* first element is an object
WithNodes(m) ==
    { k \in DOMAIN m :
        /\ IsObj(m[k])
        /\ Has(m[k].v, "nodes")
        /\ m[k].v["nodes"].t = "arr"
        /\ m[k].v["nodes"].v # <<>>
        /\ IsObj(Head(m[k].v["nodes"].v)) }

\* The top-level objects of a map with the highest score, when it is above zero
HighestScoring(m) ==
    { k \in DOMAIN m :
        /\ IsObj(m[k])
        /\ scoreResourceCandidate(m[k].v) > 0
        /\ \A j \in DOMAIN m :
              IsObj(m[j]) => scoreResourceCandidate(m[j].v) <= scoreResourceCandidate(m[k].v) }

Stripped(f) == [k \in DOMAIN f \ ServerOnlyFields |-> f[k]]

\* What the heuristic, applied to the map m of the document doc, allows
\* cur to be
HeuristicYields(m, doc, cur) ==
    IF WithNodes(m) # {}
    THEN \E k \in WithNodes(m) : cur = Stripped(Head(m[k].v["nodes"].v).v)
    ELSE IF HighestScoring(m) # {}
    THEN \E k \in HighestScoring(m) : cur = Stripped(m[k].v)
    ELSE cur = doc.v

\* C37: the heuristic is applied to the data sub-object when the document has
\* one and otherwise to the document itself: the first element of a non-empty
\* nodes array, otherwise the top-level object with the highest score, and
\* the full document only when no object scores above zero
C37_HeuristicOnDataOrDocument ==
    Extracted
        => HeuristicYields(IF HasDataObject(args.doc) THEN args.doc.v["data"].v
                           ELSE args.doc.v,
                           args.doc, result.current)

\* C37, as the code has it: the heuristic is applied to the data sub-object
\* only; a document without a data object is returned whole
C37_HeuristicOnDataOnly ==
    Extracted
        => IF HasDataObject(args.doc)
           THEN HeuristicYields(args.doc.v["data"].v, args.doc, result.current)
           ELSE result.current = args.doc.v

\* The second of two candidates scored higher and was returned without its
\* id and status
C37_HigherScoreReturned ==
    /\ Extracted
    /\ args.doc = JObj([data |-> JObj([first |-> JObj([name |-> S("a")]),
                                       second |-> Resource("abc", "b", "active")])])
    /\ result.current = [name |-> S("b")]

\* C38: for a given response document the results of extractPaginatedData and
\* of extractCurrentState do not depend on the order in which the entries of
\* a JSON object are visited
C38_ResultIndependentOfVisitOrder ==
    /\ Extracted
          => \A cur \in extractCurrentState(args.doc.v) : result.current = cur
    /\ called = "extractPaginatedData"
          => \A pg \in extractPaginatedData(args.doc.v["data"].v) : result = pg

-----------------------------------------------------------------------------
(* Claims about the wait before a retry.  Durations are counted in units of  *)
(* 100 ms: one second is 10, the jitter step is 1.                           *)

\* The positive retryAfterNS value the body of an HTTP 429 answer carries,
\* 0 when the result is no such answer
CarriedDelay(r) ==
    LET detail == r.diags[1].detail
        named  == { n \in {"3", "7"} :
                      \/ detail = <<"received", "HTTP", "429", ":">> \o RetryAfterBody(n)
                      \/ detail = <<"received", "HTTP", "429", ":">>
                                     \o RetryAfterWithMessage(n) }
    IN  IF r = Nil \/ r.diags = <<>> \/ named = {} THEN 0
        ELSE ParseInt(CHOOSE n \in named : TRUE)

-----------------------------------------------------------------------------
(* Claims about the limiters after their initialisation *)

\* Some goroutine is past the initialisation of line 117-119, or has
\* finished a call: initializeRateLimiters has run to its end at least once
Initialised ==
    \E g \in Goroutines :
        \/ gpc[g] \in {"pick", "wait", "sleep"}
        \/ (gpc[g] = "idle" /\ gCalls[g] >= 1)

\* C40: after the limiters are initialised from the uninitialised state with
\* delays (q, m), the query limiter exists exactly when q > 0 and the
\* mutation limiter exactly when m > 0; an operation of a class without
\* limiter is never delayed by the rate-limiter gate
C40_LimiterExistsIffDelayPositive ==
    /\ Initialised
          => /\ (queryRateLimiter # Nil) <=> (qDelay > 0)
             /\ (mutationRateLimiter # Nil) <=> (mDelay > 0)
    /\ \A g \in Goroutines :
          delayOf(classOf(gMut[g])) = 0 => gpc[g] \notin {"wait", "sleep"}
    /\ \A c \in Classes : delayOf(c) = 0 => waitedOn[c] = {}

\* Initialised with a query delay and no mutation delay: a mutation passed
\* the gate at once while a query is held back by the query limiter
C40_MutationPassedWhileQueryWaits ==
    /\ qDelay > 0
    /\ mDelay = 0
    /\ queryRateLimiter # Nil
    /\ mutationRateLimiter = Nil
    /\ passes["mutation"] # <<>>
    /\ \E g \in Goroutines : gpc[g] = "sleep" /\ ~gMut[g] /\ gWake[g] > now

=============================================================================
